---- MODULE Spec2Model ----
(***************************************************************************)
(* Model of the Harvia Sauna integration's synchronization engine:        *)
(*   - the per-device record and the two merge functions                  *)
(*     (coordinator.py: HarviaDeviceData, _apply_state_data,              *)
(*      _apply_telemetry_data),                                           *)
(*   - the coordinator's fallback poll and push handler                   *)
(*     (coordinator.py: _async_update_data, _async_handle_ws_update),     *)
(*   - the WebSocket session loop (websocket.py: HarviaWebSocket).        *)
(*                                                                         *)
(* Conventions.                                                            *)
(*   - Optional[...] values are sequences of length <= 1: None is <<>>,   *)
(*     a present value v is <<v>>.                                         *)
(*   - Python strings that the code indexes are sequences of one-char     *)
(*     strings; opaque strings are TLA+ strings.                           *)
(*   - time.monotonic() is the variable now, counted in ticks of          *)
(*     SecondsPerTick seconds.                                             *)
(*   - energy_kwh is kept exactly, in watt-seconds: a field value e       *)
(*     stands for e / KwhScale kWh (10.8 kWh is 38880000).                *)
(***************************************************************************)
EXTENDS Integers, Sequences, FiniteSets, TLC

VARIABLES
    now,        \* time.monotonic(), in ticks
    rec,        \* SpecApply/SpecEnergy: the HarviaDeviceData under test
    op,         \* SpecApply/SpecEnergy: the last merge call made on rec
    applied,    \* SpecApply: number of merge calls made so far
                \* (SpecEnergy: their parity)
    run,        \* SpecEnergy: the current sequence of heatOn deltas
    self_data,  \* coordinator.data: None, or the published HarviaSaunaData
    last_update_success,  \* DataUpdateCoordinator.last_update_success
    poll,       \* the _async_update_data call in flight, if any
    cmd,        \* the entity command awaiting async_request_state_change
    ev,         \* the handler that ran last, and the device it was about
    config_entry,  \* coordinator.config_entry.data, as the options flow stored it
    session,    \* the HarviaWebSocket object's attributes
    task,       \* the async_run task: its position and its local variables
    transport,  \* the connection of the current attempt: none, open, closed
    stopper,    \* the caller of async_stop and of task.cancel()
    wire,       \* the frames the session sent on the current connection
    manager,    \* the HarviaWebSocketManager object's attributes
    call        \* the call of the manager's async_start or async_stop in flight

----------------------------------------------------------------------------
(* Bounds of the model *)

MaxClock == 3
SecondsPerTick == 1800
MaxApply == 2
MaxRun == 3

(* Program constants *)

DefaultHeaterPower == 10800
DefaultOnTime == 360
KwhScale == 3600000

----------------------------------------------------------------------------
(* Python values *)

None == <<>>
Some(v) == <<v>>

\* bool(x) for the integers the cloud sends as flags
PyBool(v) == v # 0

Digits == <<"0", "1", "2", "3", "4", "5", "6", "7", "8", "9">>

RECURSIVE PyStrNat(_)
\* str(n) for a natural number n, as a sequence of characters
PyStrNat(n) ==
    IF n < 10 THEN <<Digits[n + 1]>>
    ELSE Append(PyStrNat(n \div 10), Digits[(n % 10) + 1])

\* str(x): a str is returned as it is, an int is written in decimal
PyStr(w) == IF w.t = "str" THEN w.v ELSE PyStrNat(w.n)

\* int(c) for a one-character string c: its value, or ValueError (<<>>)
PyInt(c) ==
    IF \E i \in 1..10 : Digits[i] = c
    THEN Some((CHOOSE i \in 1..10 : Digits[i] = c) - 1)
    ELSE None

----------------------------------------------------------------------------
(* The device record *)

HarviaDeviceData(id) ==
    [ device_id |-> id,
      display_name |-> "Harvia Sauna",
      active |-> FALSE,
      lights_on |-> FALSE,
      fan_on |-> FALSE,
      steam_on |-> FALSE,
      steam_enabled |-> FALSE,
      aroma_enabled |-> FALSE,
      aroma_level |-> 0,
      auto_light |-> FALSE,
      auto_fan |-> FALSE,
      dehumidifier_enabled |-> FALSE,
      target_temp |-> None,
      current_temp |-> None,
      target_rh |-> 0,
      humidity |-> 0,
      temp_unit |-> 0,
      heat_up_time |-> 0,
      remaining_time |-> 0,
      on_time |-> DefaultOnTime,
      status_codes |-> None,
      door_open |-> FALSE,
      heat_on |-> FALSE,
      wifi_rssi |-> None,
      timestamp |-> None,
      ph1_relay_counter |-> 0,
      ph2_relay_counter |-> 0,
      ph3_relay_counter |-> 0,
      ph1_relay_counter_lt |-> 0,
      ph2_relay_counter_lt |-> 0,
      ph3_relay_counter_lt |-> 0,
      steam_on_counter |-> 0,
      steam_on_counter_lt |-> 0,
      heat_on_counter |-> 0,
      heat_on_counter_lt |-> 0,
      heater_power |-> DefaultHeaterPower,
      energy_kwh |-> 0,
      _last_heat_on_timestamp |-> None ]

\* device.door_open after the try block of lines 233-236: int(s[1]) == 9,
\* or the old value when s[1] raises IndexError or int() raises ValueError
ParseDoorOpen_Reset(s, old) ==
    IF Len(s) < 2 THEN FALSE
    ELSE IF PyInt(s[2]) = None THEN FALSE
    ELSE PyInt(s[2])[1] = 9

ParseDoorOpen(s, old) ==
    IF Len(s) < 2 THEN old
    ELSE IF PyInt(s[2]) = None THEN old
    ELSE PyInt(s[2])[1] = 9

\* lines 196-229: the plain attributes of a state body
StateFields(device, data) ==
    LET Has(k) == k \in DOMAIN data
    IN  [ device EXCEPT
            !.display_name = IF Has("displayName") THEN data["displayName"] ELSE @,
            !.device_id = IF Has("deviceId") THEN data["deviceId"] ELSE @,
            !.active = IF Has("active") THEN PyBool(data["active"]) ELSE @,
            !.lights_on = IF Has("light") THEN PyBool(data["light"]) ELSE @,
            !.fan_on = IF Has("fan") THEN PyBool(data["fan"]) ELSE @,
            !.steam_enabled = IF Has("steamEn") THEN PyBool(data["steamEn"]) ELSE @,
            !.target_temp = IF Has("targetTemp") THEN Some(data["targetTemp"]) ELSE @,
            !.target_rh = IF Has("targetRh") THEN data["targetRh"] ELSE @,
            !.heat_up_time = IF Has("heatUpTime") THEN data["heatUpTime"] ELSE @,
            !.on_time = IF Has("onTime") THEN data["onTime"] ELSE @,
            !.dehumidifier_enabled = IF Has("dehumEn") THEN PyBool(data["dehumEn"]) ELSE @,
            !.auto_light = IF Has("autoLight") THEN PyBool(data["autoLight"]) ELSE @,
            !.auto_fan = IF Has("autoFan") THEN PyBool(data["autoFan"]) ELSE @,
            !.temp_unit = IF Has("tempUnit") THEN data["tempUnit"] ELSE @,
            !.aroma_enabled = IF Has("aromaEn") THEN PyBool(data["aromaEn"]) ELSE @,
            !.aroma_level = IF Has("aromaLevel") THEN data["aromaLevel"] ELSE @ ]

\* a status block that reads the key with a default instead of testing for it
StatusCodes_Get(device, data) ==
    LET s == IF "statusCodes" \in DOMAIN data
             THEN PyStr(data["statusCodes"]) ELSE <<>>
    IN  [ device EXCEPT
            !.status_codes = IF "statusCodes" \in DOMAIN data THEN Some(s) ELSE @,
            !.door_open = Len(s) >= 2 /\ PyInt(s[2]) = Some(9) ]

\* lines 230-236: the raw status string and the door flag derived from it
StatusCodes(device, data) ==
    IF "statusCodes" \in DOMAIN data
    THEN [ device EXCEPT
             !.status_codes = Some(PyStr(data["statusCodes"])),
             !.door_open = ParseDoorOpen(PyStr(data["statusCodes"]), @) ]
    ELSE device

_apply_state_data(device, data) ==
    StatusCodes(StateFields(device, data), data)

\* an accrual that tests the timestamp for truth instead of "is not None"
EnergyAccrued_Truthy(device, t) ==
    IF device.heat_on /\ device._last_heat_on_timestamp # None
                      /\ device._last_heat_on_timestamp # Some(0)
    THEN device.heater_power
            * ((t - device._last_heat_on_timestamp[1]) * SecondsPerTick)
    ELSE 0

\* The energy added by lines 251-253 to a record that has not been changed
\* yet: (heater_power / 1000) * elapsed hours, in watt-seconds, when the
\* record was heating and has a timestamp
EnergyAccrued(device, t) ==
    IF device.heat_on /\ device._last_heat_on_timestamp # None
    THEN device.heater_power
            * ((t - device._last_heat_on_timestamp[1]) * SecondsPerTick)
    ELSE 0

\* a heat block that accrues by the flag of the delta, not by the one it replaces
HeatOn_NewFlag(device, data, t) ==
    IF "heatOn" \in DOMAIN data
    THEN [ device EXCEPT
             !.heat_on = PyBool(data["heatOn"]),
             !.energy_kwh =
                 IF PyBool(data["heatOn"]) THEN @ + EnergyAccrued(device, t) ELSE @,
             !._last_heat_on_timestamp =
                 IF PyBool(data["heatOn"]) THEN Some(t) ELSE None ]
    ELSE device

\* a heat block that leaves the timestamp in place when heating ends
HeatOn_KeepStamp(device, data, t) ==
    IF "heatOn" \in DOMAIN data
    THEN [ device EXCEPT
             !.heat_on = PyBool(data["heatOn"]),
             !.energy_kwh = @ + EnergyAccrued(device, t),
             !._last_heat_on_timestamp =
                 IF PyBool(data["heatOn"]) THEN Some(t) ELSE @ ]
    ELSE device

\* lines 245-258; t is the value time.monotonic() returns at line 250
HeatOn(device, data, t) ==
    IF "heatOn" \in DOMAIN data
    THEN [ device EXCEPT
             !.heat_on = PyBool(data["heatOn"]),
             !.energy_kwh = @ + EnergyAccrued(device, t),
             !._last_heat_on_timestamp =
                 IF PyBool(data["heatOn"]) THEN Some(t) ELSE None ]
    ELSE device

\* a telemetry merge whose steam flag depends on an attribute the state
\* merge writes
TelemetryFields_Coupled(device, data) ==
    LET Has(k) == k \in DOMAIN data
    IN  [ device EXCEPT
            !.current_temp = IF Has("temperature") THEN Some(data["temperature"]) ELSE @,
            !.humidity = IF Has("humidity") THEN data["humidity"] ELSE @,
            !.steam_on = IF Has("steamOn")
                         THEN PyBool(data["steamOn"]) /\ device.steam_enabled ELSE @,
            !.remaining_time = IF Has("remainingTime") THEN data["remainingTime"] ELSE @,
            !.target_temp = IF Has("targetTemp") THEN Some(data["targetTemp"]) ELSE @,
            !.wifi_rssi = IF Has("wifiRSSI") THEN Some(data["wifiRSSI"]) ELSE @,
            !.timestamp = IF Has("timestamp") THEN data["timestamp"] ELSE @ ]

\* lines 241-244 and 260-269: the plain attributes of a telemetry body
TelemetryFields(device, data) ==
    LET Has(k) == k \in DOMAIN data
    IN  [ device EXCEPT
            !.current_temp = IF Has("temperature") THEN Some(data["temperature"]) ELSE @,
            !.humidity = IF Has("humidity") THEN data["humidity"] ELSE @,
            !.steam_on = IF Has("steamOn") THEN PyBool(data["steamOn"]) ELSE @,
            !.remaining_time = IF Has("remainingTime") THEN data["remainingTime"] ELSE @,
            !.target_temp = IF Has("targetTemp") THEN Some(data["targetTemp"]) ELSE @,
            !.wifi_rssi = IF Has("wifiRSSI") THEN Some(data["wifiRSSI"]) ELSE @,
            !.timestamp = IF Has("timestamp") THEN data["timestamp"] ELSE @ ]

\* the (key, attr) list of lines 272-283
CounterAttrs ==
    << <<"ph1RelayCounter", "ph1_relay_counter">>,
       <<"ph2RelayCounter", "ph2_relay_counter">>,
       <<"ph3RelayCounter", "ph3_relay_counter">>,
       <<"ph1RelayCounterLT", "ph1_relay_counter_lt">>,
       <<"ph2RelayCounterLT", "ph2_relay_counter_lt">>,
       <<"ph3RelayCounterLT", "ph3_relay_counter_lt">>,
       <<"steamOnCounter", "steam_on_counter">>,
       <<"steamOnCounterLT", "steam_on_counter_lt">>,
       <<"heatOnCounter", "heat_on_counter">>,
       <<"heatOnCounterLT", "heat_on_counter_lt">> >>

RECURSIVE SetCounters(_, _, _, _)
\* the loop of lines 272-285 from its i-th pair on; add is FALSE in the program
SetCounters(device, data, i, add) ==
    IF i > Len(CounterAttrs) THEN device
    ELSE LET key == CounterAttrs[i][1]
             attr == CounterAttrs[i][2]
             next == IF key \in DOMAIN data
                     THEN [ device EXCEPT
                              ![attr] = IF add THEN @ + data[key] ELSE data[key] ]
                     ELSE device
         IN  SetCounters(next, data, i + 1, add)

\* a loop that adds the reported counter to the stored one
RelayCounters_Add(device, data) == SetCounters(device, data, 1, TRUE)

\* lines 272-285
RelayCounters(device, data) == SetCounters(device, data, 1, FALSE)

_apply_telemetry_data(device, data, t) ==
    RelayCounters(TelemetryFields(HeatOn(device, data, t), data), data)

----------------------------------------------------------------------------
(* Wire keys and the bounded inputs of the merge functions *)

DeviceIds == {"d1", "d2"}

\* wire key -> record attribute, lines 196-231
StateField ==
    [ displayName |-> "display_name", deviceId |-> "device_id",
      active |-> "active", light |-> "lights_on", fan |-> "fan_on",
      steamEn |-> "steam_enabled", targetTemp |-> "target_temp",
      targetRh |-> "target_rh", heatUpTime |-> "heat_up_time",
      onTime |-> "on_time", dehumEn |-> "dehumidifier_enabled",
      autoLight |-> "auto_light", autoFan |-> "auto_fan",
      tempUnit |-> "temp_unit", aromaEn |-> "aroma_enabled",
      aromaLevel |-> "aroma_level", statusCodes |-> "status_codes" ]

\* wire key -> record attribute, lines 241-285
TelemetryField ==
    [ temperature |-> "current_temp", humidity |-> "humidity",
      heatOn |-> "heat_on", steamOn |-> "steam_on",
      remainingTime |-> "remaining_time", targetTemp |-> "target_temp",
      wifiRSSI |-> "wifi_rssi", timestamp |-> "timestamp",
      ph1RelayCounter |-> "ph1_relay_counter",
      ph2RelayCounter |-> "ph2_relay_counter",
      ph3RelayCounter |-> "ph3_relay_counter",
      ph1RelayCounterLT |-> "ph1_relay_counter_lt",
      ph2RelayCounterLT |-> "ph2_relay_counter_lt",
      ph3RelayCounterLT |-> "ph3_relay_counter_lt",
      steamOnCounter |-> "steam_on_counter",
      steamOnCounterLT |-> "steam_on_counter_lt",
      heatOnCounter |-> "heat_on_counter",
      heatOnCounterLT |-> "heat_on_counter_lt" ]

StateKeys == DOMAIN StateField
TelemetryKeys == DOMAIN TelemetryField

\* keys whose value goes through bool()
FlagKeys == {"active", "light", "fan", "steamEn", "dehumEn", "autoLight",
             "autoFan", "aromaEn", "heatOn", "steamOn"}

\* keys stored into an attribute whose default is None
OptionalKeys == {"targetTemp", "temperature", "wifiRSSI"}

\* raw statusCodes values: strings and integers
StatusWire ==
    { [t |-> "str", v |-> <<"1", "9">>], [t |-> "str", v |-> <<"1", "1">>],
      [t |-> "str", v |-> <<"1">>],      [t |-> "str", v |-> <<>>],
      [t |-> "str", v |-> <<"1", "x">>], [t |-> "str", v |-> <<"0", "9", "1">>],
      [t |-> "int", n |-> 19],           [t |-> "int", n |-> 100],
      [t |-> "int", n |-> 9] }

\* the values a key takes in the bounded inputs
WireVals(k) ==
    CASE k \in FlagKeys -> {0, 1}
      [] k = "displayName" -> {"Sauna A", "Sauna B"}
      [] k = "deviceId" -> DeviceIds
      [] k = "tz" -> {"Europe/Helsinki"}
      [] k = "statusCodes" -> StatusWire
      [] k = "timestamp" -> {None, Some("2024-01-01T00:00:00Z")}
      [] OTHER -> {90}

SingleKey(K) == UNION { { k :> v : v \in WireVals(k) } : k \in K }
KeyPairs(K) == { d1 @@ d2 : d1 \in SingleKey(K), d2 \in SingleKey(K) }

\* keys _apply_state_data does not look at ("tz" is read and skipped)
StateUnknownKeys == {"bogus", "tz", "temperature"}
\* keys _apply_telemetry_data does not look at
TelemetryUnknownKeys == {"bogus", "active", "statusCodes"}

StateDeltas ==
    {<<>>} \cup SingleKey(StateKeys \cup StateUnknownKeys)
           \cup KeyPairs({"active", "targetTemp", "bogus"})
           \cup { d @@ ("active" :> 1) : d \in SingleKey({"statusCodes"}) }

TelemetryDeltas ==
    {<<>>} \cup SingleKey(TelemetryKeys \cup TelemetryUnknownKeys)
           \cup KeyPairs({"heatOn", "temperature", "bogus"})

\* a snapshot that carries every key, as the REST fetchers return
FullState == [ k \in StateKeys |->
                 CASE k \in FlagKeys -> 1
                   [] k = "displayName" -> "Sauna A"
                   [] k = "deviceId" -> "d1"
                   [] k = "statusCodes" -> [t |-> "str", v |-> <<"1", "9">>]
                   [] OTHER -> 40 ]
FullTelemetry == [ k \in TelemetryKeys |->
                 CASE k \in FlagKeys -> 1
                   [] k = "timestamp" -> Some("2024-01-01T00:00:00Z")
                   [] OTHER -> 40 ]

\* the records a merge call may find: a new one, and one a full snapshot filled
InitRecords ==
    { HarviaDeviceData("d1"),
      _apply_telemetry_data(
          _apply_state_data(HarviaDeviceData("d1"), FullState), FullTelemetry, 0) }

----------------------------------------------------------------------------
(* SpecApply: the merge functions called on one record *)

NoOp == [kind |-> "init", data |-> <<>>, t |-> 0, again |-> FALSE]

\* the coordinator's variables, which the merge-function specifications
\* leave alone
coordVars == <<self_data, last_update_success, poll, cmd, ev, config_entry>>
\* the variables of the merge-function specifications
applyVars == <<rec, op, applied, run>>

\* no poll cycle in flight; in a cycle, todo are the devices still to fetch,
\* built the records made so far, and busy the devices that were fetched
\* while an entity command for them was in flight
PollIdle == [pc |-> "idle", todo |-> <<>>, built |-> <<>>, busy |-> {}]

\* const.py 44-58 with the rating in watts: the ratings the options flow
\* offers (config_flow.py 31-36)
HEATER_POWER_OPTIONS ==
    [ p \in {"3.0", "4.5", "6.0", "6.8", "8.0", "9.0", "10.5", "10.8", "12.0",
             "15.0", "16.5", "17.0", "20.0"} |->
        CASE p = "3.0" -> 3000 [] p = "4.5" -> 4500 [] p = "6.0" -> 6000
          [] p = "6.8" -> 6800 [] p = "8.0" -> 8000 [] p = "9.0" -> 9000
          [] p = "10.5" -> 10500 [] p = "10.8" -> 10800 [] p = "12.0" -> 12000
          [] p = "15.0" -> 15000 [] p = "16.5" -> 16500 [] p = "17.0" -> 17000
          [] OTHER -> 20000 ]

\* the data of a config entry the coordinator reads: heater_power
ConfigEntry(p) == [heater_power |-> p]

\* the entry the form's defaults give (config_flow.py 34)
DefaultEntry == ConfigEntry("10.8")

\* the entries tried: the default rating and another one
ConfigEntries == { ConfigEntry(p) : p \in {"9.0", "10.8"} }

CoordinatorInit ==
    /\ self_data = None
    /\ last_update_success = TRUE
    /\ poll = PollIdle
    /\ cmd = None
    /\ ev = [op |-> "init", dev |-> ""]

\* the session's variables, which the other specifications leave alone
sessVars == <<session, task, transport, stopper, wire>>

\* HarviaWebSocket.__init__ (websocket.py 109-111)
\* uuid.uuid4() is the next natural number: 0 at line 112, then 1, 2, ...
HarviaWebSocket ==
    [_running |-> FALSE, _websocket |-> None, _reconnect_attempts |-> 0,
     _subscription_id |-> 0]

\* no connection: sent is the set of frames sent on the current connection,
\* id the subscription identifier generated for the attempt that opened it
NoWire == [sent |-> {}, id |-> None]

Frame(type, id) == [type |-> type, id |-> id]

\* the async_run task as created, before it ran; timeout, reconnect_timer
\* and delay are its local variables (0 while they do not exist), cause is
\* the way the last connection cycle ended; acked and was_failing record,
\* from the start of a cycle to the end of the backoff after it, whether a
\* connection_ack frame was received in the cycle and whether
\* _reconnect_attempts was positive when its transport opened
TaskNew ==
    [pc |-> "new", timeout |-> 0, reconnect_timer |-> 0, delay |-> 0,
     cause |-> "none", acked |-> FALSE, was_failing |-> FALSE]

StopperIdle == [pc |-> "idle", cancel |-> FALSE]

SessionInit ==
    /\ session = HarviaWebSocket
    /\ task = TaskNew
    /\ transport = "none"
    /\ stopper = StopperIdle
    /\ wire = NoWire

\* the manager's variables
supVars == <<manager, call>>

\* HarviaWebSocketManager.__init__ (websocket.py 29-33)
HarviaWebSocketManager ==
    [_running |-> FALSE, _connections |-> <<>>, _tasks |-> <<>>]

\* no call in flight; starts counts the calls of async_start made so far,
\* last tells how the last call ended, all_backoff whether every task was
\* in its backoff sleep when the last async_stop began, pending how many
\* calls of async_start are suspended at line 41 beside the call in flight
NoCall ==
    [op |-> "none", pc |-> "", i |-> 0, starts |-> 0, last |-> "",
     all_backoff |-> FALSE, pending |-> 0]

SupervisorInit ==
    /\ manager = HarviaWebSocketManager
    /\ call = NoCall

InitApply ==
    /\ now = 0
    /\ rec \in InitRecords
    /\ op = NoOp
    /\ applied = 0
    /\ run = None
    /\ CoordinatorInit
    /\ config_entry = DefaultEntry
    /\ SessionInit
    /\ SupervisorInit

\* time.monotonic() is read at line 250 only, when the delta carries heatOn;
\* it returns a value not smaller than the last one returned
Monotonic(data) ==
    IF "heatOn" \in DOMAIN data THEN now..MaxClock ELSE {now}

ApplyState ==
    /\ applied < MaxApply
    /\ \E d \in StateDeltas :
         /\ rec' = _apply_state_data(rec, d)
         /\ op' = [kind |-> "state", data |-> d, t |-> now, again |-> FALSE]
    /\ applied' = applied + 1
    /\ UNCHANGED <<now, run, coordVars, sessVars, supVars>>

ApplyTelemetry ==
    /\ applied < MaxApply
    /\ \E d \in TelemetryDeltas : \E t \in Monotonic(d) :
         /\ now' = t
         /\ rec' = _apply_telemetry_data(rec, d, t)
         /\ op' = [kind |-> "telemetry", data |-> d, t |-> t, again |-> FALSE]
    /\ applied' = applied + 1
    /\ UNCHANGED <<run, coordVars, sessVars, supVars>>

\* the delta of the last call is delivered once more (the organization-scope
\* and the user-scope session of a channel both receive every event)
ApplyAgain ==
    /\ applied < MaxApply
    /\ op.kind \in {"state", "telemetry"}
    /\ \E t \in (IF op.kind = "state" THEN {now} ELSE Monotonic(op.data)) :
         /\ now' = t
         /\ rec' = IF op.kind = "state"
                   THEN _apply_state_data(rec, op.data)
                   ELSE _apply_telemetry_data(rec, op.data, t)
         /\ op' = [op EXCEPT !.t = t, !.again = TRUE]
    /\ applied' = applied + 1
    /\ UNCHANGED <<run, coordVars, sessVars, supVars>>

NextApply == ApplyState \/ ApplyTelemetry \/ ApplyAgain

vars == <<now, rec, op, applied, run, self_data, last_update_success, poll, cmd, ev,
          config_entry,
          session, task, transport, stopper, wire, manager, call>>

SpecApply == InitApply /\ [][NextApply]_vars

----------------------------------------------------------------------------
(* Claims about the merge functions, under SpecApply *)

\* a merge call is made in this step, of this kind
Called(kind) == applied' # applied /\ op'.kind = kind

DigitChars == {"0", "1", "2", "3", "4", "5", "6", "7", "8", "9"}

\* C4: a state delta that contains statusCodes sets door_open to TRUE when
\* the second character of the status string is the digit 9, to FALSE when
\* it is another digit, and leaves door_open as it was when the string has
\* fewer than two characters or its second character is no digit.
C4_StatusCodeParsing ==
    [][ (Called("state") /\ "statusCodes" \in DOMAIN op'.data) =>
          LET s == PyStr(op'.data["statusCodes"])
              isDigit == Len(s) >= 2 /\ s[2] \in DigitChars
          IN  /\ (isDigit /\ s[2] = "9") => rec'.door_open = TRUE
              /\ (isDigit /\ s[2] # "9") => rec'.door_open = FALSE
              /\ ~isDigit => rec'.door_open = rec.door_open
              /\ rec'.status_codes = Some(s) ]_vars

\* a one-character status string was applied to a record whose door was open,
\* and the door is still open
C4_Witness ==
    /\ op.kind = "state"
    /\ "statusCodes" \in DOMAIN op.data
    /\ Len(PyStr(op.data["statusCodes"])) = 1
    /\ rec.door_open

\* C5: a state delta or a telemetry delta that contains only keys the
\* function does not recognize leaves every field of the record as it was.
C5_UnknownKeysNoOp ==
    [][ /\ (Called("state") /\ DOMAIN op'.data \cap StateKeys = {}) => rec' = rec
        /\ (Called("telemetry") /\ DOMAIN op'.data \cap TelemetryKeys = {})
              => rec' = rec ]_vars

\* a delta of unknown keys only was applied to a record a snapshot had filled
C5_Witness ==
    /\ op.kind \in {"state", "telemetry"}
    /\ DOMAIN op.data = {"bogus"}
    /\ rec.door_open /\ rec.timestamp # None /\ rec.energy_kwh = 0
    /\ rec._last_heat_on_timestamp = Some(0)

\* C6: applying a state delta, or a telemetry delta without heatOn, a second
\* time in succession leaves the record as the first application left it.
C6_Idempotent ==
    [][ (applied' # applied /\ op'.again
            /\ (op'.kind = "telemetry" => "heatOn" \notin DOMAIN op'.data))
          => rec' = rec ]_vars

\* a delta that changes the record was applied twice in succession
C6_Witness ==
    /\ op.again
    /\ \/ op.kind = "state" /\ "statusCodes" \in DOMAIN op.data
       \/ op.kind = "telemetry" /\ "heatOnCounter" \in DOMAIN op.data
    /\ rec \notin InitRecords

\* the value an attribute holds after the key's wire value v was stored
Stored(k, v) ==
    CASE k \in FlagKeys -> PyBool(v)
      [] k \in OptionalKeys -> Some(v)
      [] k = "statusCodes" -> Some(PyStr(v))
      [] OTHER -> v

\* the attributes of the record that no wire key of the table f names
NotIn(f) == DOMAIN rec \ { f[k] : k \in DOMAIN f }

\* C7: a delta overwrites exactly the attributes whose wire keys it contains,
\* with the delta's values, whatever they held, and every other attribute
\* keeps its value; door_open changes only with statusCodes, energy_kwh and
\* the heat-on-since timestamp only with heatOn.
C7_LastWriteWinsPerField ==
    [][ /\ Called("state") =>
              /\ \A k \in StateKeys :
                    rec'[StateField[k]] =
                        IF k \in DOMAIN op'.data
                        THEN Stored(k, op'.data[k]) ELSE rec[StateField[k]]
              /\ \A a \in NotIn(StateField) \ {"door_open"} : rec'[a] = rec[a]
              /\ "statusCodes" \notin DOMAIN op'.data
                    => rec'.door_open = rec.door_open
        /\ Called("telemetry") =>
              /\ \A k \in TelemetryKeys :
                    rec'[TelemetryField[k]] =
                        IF k \in DOMAIN op'.data
                        THEN Stored(k, op'.data[k]) ELSE rec[TelemetryField[k]]
              /\ \A a \in NotIn(TelemetryField)
                            \ {"energy_kwh", "_last_heat_on_timestamp"} :
                    rec'[a] = rec[a]
              /\ "heatOn" \notin DOMAIN op'.data
                    => /\ rec'.energy_kwh = rec.energy_kwh
                       /\ rec'._last_heat_on_timestamp
                            = rec._last_heat_on_timestamp ]_vars

\* a two-key delta overwrote one attribute of a filled record and left the
\* attribute of an absent key alone
C7_Witness ==
    /\ op.kind = "state"
    /\ DOMAIN op.data = {"active", "targetTemp"}
    /\ ~rec.active /\ rec.target_temp = Some(90)
    /\ rec.lights_on /\ rec.aroma_level = 40

\* the wire keys of the delta of a call that its merge function recognizes
Recognized(x) ==
    DOMAIN x.data \cap (IF x.kind = "state" THEN StateKeys ELSE TelemetryKeys)

\* the merge function of a delta, called on the record r at time t
Merge(r, x, t) ==
    IF x.kind = "state" THEN _apply_state_data(r, x.data)
    ELSE _apply_telemetry_data(r, x.data, t)

\* C32: for two deltas, state or telemetry, whose recognized wire keys are
\* disjoint and neither of which carries heatOn, applying them to a record
\* in either order gives the same record: the record the second call leaves
\* is the one the two calls leave when made in the other order.
C32_DisjointKeysCommute ==
    [][ (/\ applied = 1 /\ applied' = 2
         /\ Recognized(op) \cap Recognized(op') = {}
         /\ "heatOn" \notin DOMAIN op.data \cup DOMAIN op'.data)
          => \A r \in InitRecords :
                Merge(r, op, now) = rec
                  => Merge(Merge(r, op', now), op, now) = rec' ]_vars

\* a state delta and then a telemetry delta with other keys, neither with
\* heatOn, were applied to a new record and both changed it
C32_Witness ==
    /\ applied = 2
    /\ op.kind = "telemetry" /\ DOMAIN op.data = {"steamOn"} /\ ~op.again
    /\ rec.steam_on /\ rec.steam_enabled
    /\ ~rec.active /\ rec.timestamp = None

----------------------------------------------------------------------------
(* SpecEnergy: the energy integration of lines 245-258 on one record *)

\* telemetry bodies that carry heatOn
HeatDeltas ==
    { "heatOn" :> 0, "heatOn" :> 1, ("heatOn" :> 1) @@ ("temperature" :> 90) }

\* The sequence of heatOn deltas the record is in after the delta d arrives at
\* time t: a sequence ends with the first delta that reports "not heating",
\* and the next delta starts a new one. first and last are the times of its
\* first and latest delta, base the energy the record held before its first
\* delta, n the number of its deltas (counted up to MaxRun).
RunAfter(r, device, d, t) ==
    IF r = None \/ ~r[1].open
    THEN Some([first |-> t, last |-> t, base |-> device.energy_kwh, n |-> 1,
               open |-> PyBool(d["heatOn"])])
    ELSE Some([r[1] EXCEPT !.last = t,
                           !.n = IF @ < MaxRun THEN @ + 1 ELSE @,
                           !.open = PyBool(d["heatOn"])])

InitEnergy ==
    /\ now = 0
    /\ rec = HarviaDeviceData("d1")
    /\ op = NoOp
    /\ applied = 0
    /\ run = None
    /\ CoordinatorInit
    /\ config_entry \in ConfigEntries
    /\ SessionInit
    /\ SupervisorInit

\* _apply_telemetry_data with a body that carries heatOn
HeatDelta ==
    \E d \in HeatDeltas : \E t \in Monotonic(d) :
        /\ now' = t
        /\ rec' = _apply_telemetry_data(rec, d, t)
        /\ op' = [kind |-> "telemetry", data |-> d, t |-> t, again |-> FALSE]
        /\ applied' = 1 - applied
        /\ run' = RunAfter(run, rec, d, t)
        /\ UNCHANGED <<coordVars, sessVars, supVars>>

\* _apply_telemetry_data with a body without heatOn
OtherTelemetry ==
    \E d \in {"temperature" :> 90, "bogus" :> 1} :
        /\ rec' = _apply_telemetry_data(rec, d, now)
        /\ op' = [kind |-> "telemetry", data |-> d, t |-> now, again |-> FALSE]
        /\ applied' = 1 - applied
        /\ UNCHANGED <<now, run, coordVars, sessVars, supVars>>

\* _apply_state_data
OtherState ==
    \E d \in {"active" :> 1, "active" :> 0} :
        /\ rec' = _apply_state_data(rec, d)
        /\ op' = [kind |-> "state", data |-> d, t |-> now, again |-> FALSE]
        /\ applied' = 1 - applied
        /\ UNCHANGED <<now, run, coordVars, sessVars, supVars>>

NextEnergy == HeatDelta \/ OtherTelemetry \/ OtherState

SpecEnergy == InitEnergy /\ [][NextEnergy]_vars

\* C2: a telemetry delta that carries heatOn, applied at time t2 to a record
\* that was heating since t1, adds heater_power * (t2 - t1) watt-seconds, that
\* is (heater_power / 1000) * (t2 - t1) / 3600 kWh, to energy_kwh; with
\* 10800 W, heat-on at t = 0 and heat-off at t = 3600 s on a fresh record give
\* 10.8 kWh.
C2_EnergyIntegration ==
    [][ /\ (/\ Called("telemetry") /\ "heatOn" \in DOMAIN op'.data
            /\ rec.heat_on /\ rec._last_heat_on_timestamp # None)
           => rec'.energy_kwh = rec.energy_kwh
                + rec.heater_power
                    * ((op'.t - rec._last_heat_on_timestamp[1]) * SecondsPerTick)
        /\ (/\ run' # None /\ rec'.heater_power = 10800
            /\ run'[1].first = 0 /\ run'[1].base = 0 /\ ~run'[1].open
            /\ run'[1].last * SecondsPerTick = 3600)
           => rec'.energy_kwh * 10 = 108 * KwhScale ]_vars

\* heat-on at t = 0, heat-off one hour later, 10.8 kWh on the record
C2_Witness ==
    /\ run # None /\ run[1].first = 0 /\ run[1].n = 2 /\ ~run[1].open
    /\ run[1].last * SecondsPerTick = 3600
    /\ op.kind = "telemetry" /\ "heatOn" \in DOMAIN op.data
    /\ ~rec.heat_on
    /\ rec.energy_kwh * 10 = 108 * KwhScale

\* C3: over a sequence of heatOn deltas applied at times t_1 <= ... <= t_n, of
\* which all but possibly the last report heating, the record accrues
\* heater_power * (t_n - t_1), however many deltas lie in between and however
\* many of them arrive at the same time.
C3_IntervalCountedOnce ==
    run # None =>
        rec.energy_kwh - run[1].base
            = rec.heater_power * ((run[1].last - run[1].first) * SecondsPerTick)

\* a sequence of at least three deltas, two of them at the same time, that
\* has ended and accrued energy
C3_Witness ==
    /\ run # None /\ run[1].n >= 3 /\ ~run[1].open
    /\ run[1].last > run[1].first
    /\ op.kind = "telemetry" /\ "heatOn" \in DOMAIN op.data /\ op.t = now
    /\ rec.energy_kwh > run[1].base
    /\ run[1].base > 0

\* the power configured for the account, in watts
ConfiguredPower == HEATER_POWER_OPTIONS[config_entry.heater_power]

\* C35: the heater_power of the record is the power configured for the
\* account, in watts, after every merge call, and a telemetry delta that
\* accrues energy adds the configured power times the time elapsed.
C35_ConfiguredPower ==
    [][ /\ rec'.heater_power = ConfiguredPower
        /\ (/\ Called("telemetry") /\ "heatOn" \in DOMAIN op'.data
            /\ rec.heat_on /\ rec._last_heat_on_timestamp # None)
           => rec'.energy_kwh = rec.energy_kwh
                + ConfiguredPower
                    * ((op'.t - rec._last_heat_on_timestamp[1]) * SecondsPerTick)
      ]_vars

----------------------------------------------------------------------------
(* Spec: the coordinator -- fallback poll, push handler, entity commands *)

\* what async_get_device_tree returns: the device names, in order
DeviceTrees == { <<>>, <<"d1">>, <<"d1", "d2">> }

\* what async_get_device_state returns for a device
PollStateBodies(id) ==
    IF id = "d1"
    THEN { "deviceId" :> id, ("deviceId" :> id) @@ ("active" :> 1) }
    ELSE { "deviceId" :> id }

\* what async_get_latest_device_data returns: the decoded data with the
\* timestamp and the type of the item put in
PollTelemetryBodies(id) ==
    { b @@ ("timestamp" :> Some("T")) @@ ("type" :> "sensor") :
        b \in (IF id = "d1" THEN { <<>>, "heatOn" :> 1 } ELSE { <<>> }) }

\* the decoded "reported" bodies of pushed onStateUpdated events
PushStateBodies ==
    { ("deviceId" :> "d1") @@ ("active" :> a) : a \in {0, 1} }
        \cup { ("deviceId" :> "d2") @@ ("active" :> 1), "active" :> 1 }

\* the items of pushed onDataUpdates events
PushTelemetryItems ==
    { [deviceId |-> "d1", data |-> b, timestamp |-> Some("T")] :
        b \in { "heatOn" :> 0, "heatOn" :> 1 } }

\* the handler that ran, and the device of a push
Event(o, d) == [op |-> o, dev |-> d]

Init ==
    /\ now = 0
    /\ rec = HarviaDeviceData("")
    /\ op = NoOp
    /\ applied = 0
    /\ run = None
    /\ CoordinatorInit
    /\ config_entry = DefaultEntry
    /\ SessionInit
    /\ SupervisorInit

\* HarviaSaunaData(): available defaults to True and line 148 sets it again
HarviaSaunaData(devices) == [devices |-> devices, available |-> TRUE]

\* line 132: a poll starts and the device tree arrives
PollStart ==
    /\ poll.pc = "idle"
    /\ \E tree \in DeviceTrees :
         poll' = [pc |-> "run", todo |-> tree, built |-> <<>>, busy |-> {}]
    /\ ev' = Event("poll", "")
    /\ UNCHANGED <<now, self_data, last_update_success, cmd, config_entry, applyVars, sessVars, supVars>>

\* line 132 raises: UpdateFailed leaves coordinator.data as it is
PollTreeFail ==
    /\ poll.pc = "idle"
    /\ last_update_success' = FALSE
    /\ ev' = Event("poll", "")
    /\ UNCHANGED <<now, self_data, poll, cmd, config_entry, applyVars, sessVars, supVars>>

\* a cycle that puts every record into the published state as it is built
PollDevice_InPlace ==
    /\ poll.pc = "run" /\ poll.todo # <<>>
    /\ LET device_id == Head(poll.todo)
       IN  \E state \in PollStateBodies(device_id) :
           \E telemetry \in PollTelemetryBodies(device_id) :
           \E t \in Monotonic(telemetry) :
             LET built == _apply_telemetry_data(
                              _apply_state_data(HarviaDeviceData(device_id), state),
                              telemetry, t)
             IN  /\ now' = t
                 /\ poll' = [ poll EXCEPT
                       !.todo = Tail(@),
                       !.built = (device_id :> built) @@ @,
                       !.busy = IF cmd # None /\ cmd[1].dev = device_id
                            THEN @ \cup {device_id} ELSE @ ]
                 /\ self_data' =
                       IF self_data = None THEN self_data
                       ELSE Some([ self_data[1] EXCEPT
                                     !.devices = (device_id :> built) @@ @ ])
                 /\ ev' = Event("poll", "")
    /\ UNCHANGED <<last_update_success, cmd, config_entry, applyVars, sessVars, supVars>>

\* lines 136-146 for the next device of the tree: a new record, the fetched
\* state and the fetched telemetry merged into it
PollDevice ==
    /\ poll.pc = "run" /\ poll.todo # <<>>
    /\ LET device_id == Head(poll.todo)
       IN  \E state \in PollStateBodies(device_id) :
           \E telemetry \in PollTelemetryBodies(device_id) :
           \E t \in Monotonic(telemetry) :
             /\ now' = t
             /\ poll' = [ poll EXCEPT
                   !.todo = Tail(@),
                   !.built = (device_id :>
                       _apply_telemetry_data(
                           _apply_state_data(HarviaDeviceData(device_id), state),
                           telemetry, t)) @@ @,
                   !.busy = IF cmd # None /\ cmd[1].dev = device_id
                            THEN @ \cup {device_id} ELSE @ ]
             /\ ev' = Event("poll", "")
    /\ UNCHANGED <<self_data, last_update_success, cmd, config_entry, applyVars, sessVars, supVars>>

\* a failing cycle that publishes the records it had built so far
PollDeviceFail_Partial ==
    /\ poll.pc = "run" /\ poll.todo # <<>>
    /\ self_data' = Some(HarviaSaunaData(poll.built))
    /\ poll' = PollIdle
    /\ last_update_success' = FALSE
    /\ ev' = Event("poll", Head(poll.todo))
    /\ UNCHANGED <<now, cmd, config_entry, applyVars, sessVars, supVars>>

\* lines 139-140 raise for the next device: lines 151-156; the event names
\* the device whose fetch failed
PollDeviceFail ==
    /\ poll.pc = "run" /\ poll.todo # <<>>
    /\ poll' = PollIdle
    /\ last_update_success' = FALSE
    /\ ev' = Event("poll", Head(poll.todo))
    /\ UNCHANGED <<now, self_data, cmd, config_entry, applyVars, sessVars, supVars>>

\* lines 148-149: the new HarviaSaunaData becomes coordinator.data
PollPublish ==
    /\ poll.pc = "run" /\ poll.todo = <<>>
    /\ self_data' = Some(HarviaSaunaData(poll.built))
    /\ last_update_success' = TRUE
    /\ poll' = PollIdle
    /\ ev' = Event("poll", "")
    /\ UNCHANGED <<now, cmd, config_entry, applyVars, sessVars, supVars>>

\* a handler that creates the record of a device it does not know
PushState_Create ==
    \E state \in PushStateBodies :
      LET device_id == IF "deviceId" \in DOMAIN state THEN state["deviceId"] ELSE ""
      IN  /\ ev' = Event("push_state", device_id)
          /\ IF self_data # None /\ device_id # ""
             THEN /\ self_data' = Some([ self_data[1] EXCEPT
                        !.devices = (device_id :> _apply_state_data(
                            IF device_id \in DOMAIN @ THEN @[device_id]
                            ELSE HarviaDeviceData(device_id), state)) @@ @ ])
                  /\ last_update_success' = TRUE
             ELSE UNCHANGED <<self_data, last_update_success>>
          /\ UNCHANGED <<now, poll, cmd, config_entry, applyVars, sessVars, supVars>>

\* lines 160-173 and 184-185 for a pushed state body
PushState ==
    \E state \in PushStateBodies :
      LET device_id == IF "deviceId" \in DOMAIN state THEN state["deviceId"] ELSE ""
      IN  /\ ev' = Event("push_state", device_id)
          /\ IF /\ self_data # None
                /\ device_id # ""
                /\ device_id \in DOMAIN self_data[1].devices
             THEN /\ self_data' = Some([ self_data[1] EXCEPT
                        !.devices[device_id] = _apply_state_data(@, state) ])
                  /\ last_update_success' = TRUE
             ELSE UNCHANGED <<self_data, last_update_success>>
          /\ UNCHANGED <<now, poll, cmd, config_entry, applyVars, sessVars, supVars>>

\* lines 160-162 and 175-185 for a pushed telemetry item
PushTelemetry ==
    \E item \in PushTelemetryItems :
      LET device_id == item.deviceId
          telemetry == ("timestamp" :> item.timestamp) @@ item.data
      IN  /\ ev' = Event("push_telemetry", device_id)
          /\ IF /\ self_data # None
                /\ device_id \in DOMAIN self_data[1].devices
             THEN \E t \in Monotonic(telemetry) :
                    /\ now' = t
                    /\ self_data' = Some([ self_data[1] EXCEPT
                          !.devices[device_id] =
                              _apply_telemetry_data(@, telemetry, t) ])
                    /\ last_update_success' = TRUE
             ELSE UNCHANGED <<now, self_data, last_update_success>>
          /\ UNCHANGED <<poll, cmd, config_entry, applyVars, sessVars, supVars>>

\* a command that writes the record before the request is sent
CommandSend_Writes ==
    /\ cmd = None
    /\ self_data # None
    /\ \E device_id \in DOMAIN self_data[1].devices \cap {"d1"} : \E v \in BOOLEAN :
         /\ cmd' = Some([dev |-> device_id, attr |-> "active", value |-> v])
         /\ self_data' = Some([ self_data[1] EXCEPT
                !.devices[device_id]["active"] = v ])
         /\ ev' = Event("command", "")
    /\ UNCHANGED <<now, last_update_success, poll, config_entry, applyVars, sessVars, supVars>>

\* switch.py 148-152: an entity of a known device sends a command
CommandSend ==
    /\ cmd = None
    /\ self_data # None
    /\ \E device_id \in DOMAIN self_data[1].devices \cap {"d1"} : \E v \in BOOLEAN :
         /\ cmd' = Some([dev |-> device_id, attr |-> "active", value |-> v])
         /\ ev' = Event("command", "")
    /\ UNCHANGED <<now, self_data, last_update_success, poll, config_entry, applyVars, sessVars, supVars>>

\* switch.py 153-157: the command returned, the record is written
CommandDone ==
    /\ cmd # None
    /\ LET c == cmd[1]
       IN  /\ IF self_data # None /\ c.dev \in DOMAIN self_data[1].devices
              THEN self_data' = Some([ self_data[1] EXCEPT
                        !.devices[c.dev][c.attr] = c.value ])
              ELSE UNCHANGED self_data
           /\ ev' = Event("command_done", c.dev)
    /\ cmd' = None
    /\ UNCHANGED <<now, last_update_success, poll, config_entry, applyVars, sessVars, supVars>>

\* switch.py 150: async_request_state_change raises, nothing is written
CommandFail ==
    /\ cmd # None
    /\ ev' = Event("command_failed", cmd[1].dev)
    /\ cmd' = None
    /\ UNCHANGED <<now, self_data, last_update_success, poll, config_entry, applyVars, sessVars, supVars>>

Next ==
    \/ PollStart \/ PollTreeFail \/ PollDevice \/ PollDeviceFail \/ PollPublish
    \/ PushState \/ PushTelemetry
    \/ CommandSend \/ CommandDone \/ CommandFail

Spec == Init /\ [][Next]_vars

\* the device identifiers of the published account state
Known(d) == IF d = None THEN {} ELSE DOMAIN d[1].devices

\* C1: the energy_kwh a device shows never becomes smaller, whatever pushes,
\* poll cycles and entity commands happen.
C1_EnergyMonotonic ==
    [][ \A id \in Known(self_data) \cap Known(self_data') :
            self_data'[1].devices[id].energy_kwh
                >= self_data[1].devices[id].energy_kwh ]_vars

\* C8: a pushed state or telemetry delta for a device that is not in the
\* account state, or that arrives before any snapshot was published, changes
\* neither the set of known devices nor any record; pushes never change the
\* set of known devices, and a device becomes known only when a poll cycle
\* publishes its snapshot.
C8_PushNeverCreates ==
    [][ /\ (/\ ev'.op \in {"push_state", "push_telemetry"}
            /\ ev'.dev \notin Known(self_data))
           => /\ self_data' = self_data
              /\ poll' = poll
        /\ ev'.op \in {"push_state", "push_telemetry"}
           => Known(self_data') = Known(self_data)
        /\ Known(self_data') \ Known(self_data) # {}
           => /\ poll.pc = "run" /\ poll.todo = <<>>
              /\ self_data' = Some(HarviaSaunaData(poll.built)) ]_vars

\* a state delta for d2 was pushed while only d1 is known, and d2 still has
\* no record
C8_Witness ==
    /\ ev = Event("push_state", "d2")
    /\ Known(self_data) = {"d1"}

\* C19: a device identifier that is in the account state is still in it
\* after every step, a successful poll cycle whose device tree no longer
\* names it included.
C19_NeverRemoved ==
    [][ Known(self_data) \subseteq Known(self_data') ]_vars

\* the availability flag of the account state (HarviaSaunaData.available)
Available(d) == d # None /\ d[1].available

\* the last thing that happened is that a poll cycle failed
PollJustFailed == ev.op = "poll" /\ poll = PollIdle /\ ~last_update_success

\* C20: the availability flag of the account state is false once a poll
\* cycle has failed and true again once a poll cycle has succeeded, and a
\* pushed event never changes it.
C20_AvailabilityFlag ==
    [][ /\ PollJustFailed' /\ self_data' # None => ~Available(self_data')
        /\ ev'.op = "poll" /\ poll' = PollIdle /\ last_update_success'
           => Available(self_data')
        /\ ev'.op \in {"push_state", "push_telemetry"} /\ self_data # None
           => Available(self_data') = Available(self_data) ]_vars

\* C21: a step in which a poll cycle fails - at the device tree or at the
\* state or telemetry of any device - reports the failure and leaves the
\* published account state as it was; and no step of a poll cycle other than
\* its closing publish changes the published state.
C21_FailedPollAllOrNothing ==
    [][ /\ PollJustFailed' /\ (poll.pc = "run" \/ last_update_success)
           => self_data' = self_data
        /\ ev'.op = "poll" /\ ~(poll.pc = "run" /\ poll.todo = <<>>)
           => self_data' = self_data
        /\ poll.pc = "run" /\ poll' = PollIdle /\ poll.todo # <<>>
           => ~last_update_success' ]_vars

\* the cycle failed at d2 after d1 had been fetched, and the state published
\* before, with d1 switched on by a push, is still there
C21_Witness ==
    /\ ev = Event("poll", "d2")
    /\ PollJustFailed
    /\ self_data # None
    /\ Known(self_data) = {"d1"}
    /\ self_data[1].devices["d1"].active

\* the value the record of the command's device shows for the command's field
Shown(d, c) == d[1].devices[c.dev][c.attr]

Publishes == poll.pc = "run" /\ poll.todo = <<>> /\ poll' = PollIdle

\* C31: when a poll cycle publishes, the record of a device that was known
\* before is its previous record with the fetched state and telemetry
\* merged in, so an attribute neither of them names (a pushed value, the
\* heat-on-since timestamp, the accrued energy) keeps its value.
C31_SnapshotMerges ==
    [][ Publishes =>
          \A id \in Known(self_data) \cap Known(self_data') :
            \E state \in PollStateBodies(id) :
            \E telemetry \in PollTelemetryBodies(id) :
            \E t \in 0..MaxClock :
              self_data'[1].devices[id] =
                  _apply_telemetry_data(
                      _apply_state_data(self_data[1].devices[id], state),
                      telemetry, t) ]_vars

\* the records that exist: those of the published account state and those
\* a poll cycle in flight has built
Records(d, p) ==
    { d[1].devices[id] : id \in Known(d) } \cup { p.built[id] : id \in DOMAIN p.built }

\* heat_on is true exactly when the heat-on-since timestamp is set
StampIffHeating(r) == (r._last_heat_on_timestamp # None) <=> r.heat_on

\* C33: in every reachable state every record has its heat-on-since
\* timestamp set exactly when heat_on is true; and a telemetry delta applied
\* to a record whose heat_on was false leaves energy_kwh as it was.
C33_StampIffHeating ==
    /\ \A r \in Records(self_data, poll) : StampIffHeating(r)
    /\ [][ /\ \A r \in Records(self_data', poll') : StampIffHeating(r)
           /\ (/\ ev'.op = "push_telemetry"
               /\ ev'.dev \in Known(self_data)
               /\ ~self_data[1].devices[ev'.dev].heat_on)
              => self_data'[1].devices[ev'.dev].energy_kwh
                    = self_data[1].devices[ev'.dev].energy_kwh ]_vars

\* a heatOn delta was pushed, after the clock had advanced, to a record that
\* was not heating: the record heats since now and has accrued nothing
C33_Witness ==
    /\ ev = Event("push_telemetry", "d1")
    /\ "d1" \in Known(self_data)
    /\ now > 0
    /\ self_data[1].devices["d1"].heat_on
    /\ self_data[1].devices["d1"]._last_heat_on_timestamp = Some(now)
    /\ self_data[1].devices["d1"].energy_kwh = 0

\* C34: after a command was sent and optimistically applied, a pushed state
\* for the device that carries the commanded value changes nothing, and the
\* record still shows the commanded value when a poll cycle that fetched the
\* device before the command was issued publishes after the optimistic write.
C34_OptimisticEchoConverge ==
    [][ /\ (/\ ev.op = "command_done" /\ ev.dev \in Known(self_data)
            /\ ev' = Event("push_state", ev.dev)
            /\ self_data'[1].devices[ev.dev].active
                  = self_data[1].devices[ev.dev].active)
           => self_data' = self_data
        /\ (/\ ev.op = "command_done" /\ ev.dev \in Known(self_data)
            /\ Publishes /\ ev.dev \in DOMAIN poll.built \ poll.busy)
           => /\ ev.dev \in Known(self_data')
              /\ self_data'[1].devices[ev.dev].active
                    = self_data[1].devices[ev.dev].active ]_vars

\* the records of the devices other than d are the same in a and b
SameButFor(a, b, d) ==
    /\ Known(a) = Known(b)
    /\ \A id \in Known(a) \ {d} : a[1].devices[id] = b[1].devices[id]

\* C40: the published account state changes in a poll cycle only when the
\* cycle succeeds, and then to the complete set of records the cycle built,
\* each with state and telemetry applied; a step of a cycle in flight changes
\* nothing that is published; a push changes nothing of the cycle in flight
\* and at most the published record of its device, which becomes that
\* record with the pushed delta merged in, in one step.
C40_AtomicPublish ==
    /\ \A id \in Known(self_data) :
          /\ self_data[1].devices[id].device_id = id
          /\ self_data[1].devices[id].timestamp # None
    /\ [][ /\ (ev'.op = "poll" /\ self_data' # self_data)
              => /\ poll.pc = "run" /\ poll.todo = <<>> /\ poll' = PollIdle
                 /\ self_data' = Some(HarviaSaunaData(poll.built))
                 /\ last_update_success'
           /\ ev'.op \in {"push_state", "push_telemetry"}
              => /\ poll' = poll
                 /\ self_data # None
                    => /\ self_data' # None
                       /\ SameButFor(self_data, self_data', ev'.dev)
           /\ (ev'.op = "push_state" /\ self_data' # self_data)
              => \E state \in PushStateBodies :
                    self_data'[1].devices[ev'.dev] =
                        _apply_state_data(self_data[1].devices[ev'.dev], state)
           /\ (ev'.op = "push_telemetry" /\ self_data' # self_data)
              => \E item \in PushTelemetryItems :
                    self_data'[1].devices[ev'.dev] =
                        _apply_telemetry_data(self_data[1].devices[ev'.dev],
                            ("timestamp" :> item.timestamp) @@ item.data, now')
         ]_vars

\* a state delta for d1 was pushed while a poll cycle had built d1 and had
\* d2 still to fetch: the published record shows the push, the record of
\* the cycle does not, and d2 is not published
C40_Witness ==
    /\ ev = Event("push_state", "d1")
    /\ poll.pc = "run" /\ poll.todo = <<"d2">>
    /\ "d1" \in DOMAIN poll.built
    /\ Known(self_data) = {"d1"}
    /\ self_data[1].devices["d1"].active
    /\ ~poll.built["d1"].active

----------------------------------------------------------------------------
(* SpecSession: one HarviaWebSocket -- async_run, _async_connect_and_listen, *)
(* async_stop and the cancellation of the async_run task.  Every action is   *)
(* the code between two awaits of one of the tasks.                          *)

MaxIds == 2

(* Program constants *)

WS_RECONNECT_INTERVAL == 1800
WS_HEARTBEAT_TIMEOUT == 300
WS_MAX_RECONNECT_DELAY == 60
\* int + float converts the int to a float: 2 ** n + random.uniform(0, 1)
\* raises OverflowError from n = 1024 on
FloatMaxExp == 1024

\* random.uniform(0, 1), in whole seconds
Jitter == {0, 1}

Min(a, b) == IF a <= b THEN a ELSE b

\* line 137-140; 2 ** n exceeds WS_MAX_RECONNECT_DELAY from n = 6 on
Delay(n, j) ==
    IF n >= 6 THEN WS_MAX_RECONNECT_DELAY
    ELSE Min(2 ^ n + j, WS_MAX_RECONNECT_DELAY)

\* message.get("payload") of a connection_ack frame
AckPayloads ==
    { None, Some(<<>>), Some("connectionTimeoutMs" :> 60000),
      Some("other" :> 1) }

\* the positions at which the async_run task is suspended inside the
\* `async with websockets.connect(...)` block
InContext == {"init", "recv", "token", "start"}
\* the positions at which the task awaits the close of the transport
Exiting == {"exit", "exit_exc"}
\* the task is over: it returned, raised, or was cancelled
Over == {"done", "raised", "cancelled"}

\* __init__.py 47-50: the sessions are started after the first refresh
\* succeeded, here with one device
FirstRefresh == Some(HarviaSaunaData("d1" :> HarviaDeviceData("d1")))

InitSession ==
    /\ now = 0
    /\ rec = HarviaDeviceData("")
    /\ op = NoOp
    /\ applied = 0
    /\ run = None
    /\ self_data = FirstRefresh
    /\ last_update_success = TRUE
    /\ poll = PollIdle
    /\ cmd = None
    /\ ev = Event("poll", "")
    /\ config_entry = DefaultEntry
    /\ SessionInit
    /\ SupervisorInit

\* the local variables of _async_connect_and_listen are gone
Returned(pc, c) ==
    [pc |-> pc, timeout |-> 0, reconnect_timer |-> 0, delay |-> 0, cause |-> c,
     acked |-> task.acked, was_failing |-> task.was_failing]

\* async_run 124-146 once _async_connect_and_listen has returned or raised
\* an Exception; s holds the object's attributes, c the way the cycle ended
AfterCycle(s, c) ==
    IF ~s._running
    THEN /\ session' = s
         /\ task' = Returned("done", c)
    ELSE IF s._reconnect_attempts >= FloatMaxExp
    THEN /\ session' = s
         /\ task' = Returned("raised", c)
    ELSE \E j \in Jitter :
         /\ session' = [s EXCEPT !._reconnect_attempts = @ + 1]
         /\ task' = [Returned("backoff", c) EXCEPT
                        !.delay = Delay(s._reconnect_attempts, j)]

\* line 181: the `while self._running` test after a frame was handled
LoopCheck(t) ==
    IF session._running THEN [t EXCEPT !.pc = "recv"]
    ELSE [t EXCEPT !.pc = "exit", !.cause = "stop"]

\* lines 119-123 and 163: the task starts, up to its first await
RunStart ==
    /\ task.pc = "new"
    /\ session' = [session EXCEPT !._running = TRUE]
    /\ task' = [task EXCEPT !.pc = "info"]
    /\ UNCHANGED <<transport, stopper, wire, now, applyVars, coordVars, supVars>>

\* line 163 returned, line 164 awaits
InfoOk ==
    /\ task.pc = "info"
    /\ task' = [task EXCEPT !.pc = "url"]
    /\ UNCHANGED <<session, transport, stopper, wire, now, applyVars, coordVars, supVars>>

\* an attempt that keeps the identifier of the attempt before
UrlOk_Reuse ==
    /\ task.pc = "url"
    /\ task' = [task EXCEPT !.pc = "connect"]
    /\ UNCHANGED <<session, transport, stopper, wire, now, applyVars, coordVars, supVars>>

\* line 164 returned, lines 166-170 await the connection
UrlOk ==
    /\ task.pc = "url"
    /\ session._subscription_id < MaxIds
    /\ session' = [session EXCEPT !._subscription_id = @ + 1]
    /\ task' = [task EXCEPT !.pc = "connect"]
    /\ UNCHANGED <<transport, stopper, wire, now, applyVars, coordVars, supVars>>

\* lines 163-170: one of the awaits before the transport is open raises
AttemptRaises ==
    /\ task.pc \in {"info", "url", "connect"}
    /\ AfterCycle(session, "error")
    /\ UNCHANGED <<transport, stopper, wire, now, applyVars, coordVars, supVars>>

\* ConnectOk without line 172: the counter is not reset
ConnectOk_NoReset ==
    /\ task.pc = "connect"
    /\ transport' = "open"
    /\ session' = [session EXCEPT !._websocket = Some("ws")]
    /\ task' = [task EXCEPT !.pc = "init",
                            !.was_failing = session._reconnect_attempts > 0]
    /\ wire' = [sent |-> {Frame("connection_init", None)},
                id |-> Some(session._subscription_id)]
    /\ UNCHANGED <<stopper, now, applyVars, coordVars, supVars>>

\* lines 170-175: the transport is open and websocket.send is called with
\* connection_init.  A send puts its frame on the wire when it is called,
\* if the connection is open then, and returns or raises at a later step
ConnectOk ==
    /\ task.pc = "connect"
    /\ transport' = "open"
    /\ session' = [session EXCEPT !._websocket = Some("ws"),
                                  !._reconnect_attempts = 0]
    /\ task' = [task EXCEPT !.pc = "init",
                            !.was_failing = session._reconnect_attempts > 0]
    /\ wire' = [sent |-> {Frame("connection_init", None)},
                id |-> Some(session._subscription_id)]
    /\ UNCHANGED <<stopper, now, applyVars, coordVars, supVars>>

\* an InitSent that sends the start frame without waiting for connection_ack
InitSent_Start ==
    /\ task.pc = "init"
    /\ transport = "open"
    /\ task' = LoopCheck([task EXCEPT !.timeout = WS_HEARTBEAT_TIMEOUT,
                                      !.reconnect_timer = 0])
    /\ wire' = [wire EXCEPT
           !.sent = @ \cup {Frame("start", Some(session._subscription_id))}]
    /\ UNCHANGED <<session, transport, stopper, now, applyVars, coordVars, supVars>>

\* lines 175-183: the send of connection_init returned, the receive loop is
\* entered
InitSent ==
    /\ task.pc = "init"
    /\ transport = "open"
    /\ task' = LoopCheck([task EXCEPT !.timeout = WS_HEARTBEAT_TIMEOUT,
                                      !.reconnect_timer = 0])
    /\ UNCHANGED <<session, transport, stopper, wire, now, applyVars, coordVars, supVars>>

\* lines 175, 235, 270: a send, or async_get_id_token, raises
SendRaises ==
    /\ task.pc \in {"init", "token", "start"}
    /\ task' = [task EXCEPT !.pc = "exit_exc", !.cause = "error"]
    /\ UNCHANGED <<session, transport, stopper, wire, now, applyVars, coordVars, supVars>>

\* a "ka" frame with the test of line 204 made strict
RecvKa_Late ==
    /\ task.pc = "recv"
    /\ transport = "open"
    /\ LET timer == task.reconnect_timer + task.timeout
       IN  task' = IF timer > WS_RECONNECT_INTERVAL
                   THEN [task EXCEPT !.reconnect_timer = timer,
                                     !.pc = "exit", !.cause = "rotation"]
                   ELSE LoopCheck([task EXCEPT !.reconnect_timer = timer])
    /\ UNCHANGED <<session, transport, stopper, wire, now, applyVars, coordVars, supVars>>

\* lines 201-209: a "ka" frame
RecvKa ==
    /\ task.pc = "recv"
    /\ transport = "open"
    /\ LET timer == task.reconnect_timer + task.timeout
       IN  task' = IF timer >= WS_RECONNECT_INTERVAL
                   THEN [task EXCEPT !.reconnect_timer = timer,
                                     !.pc = "exit", !.cause = "rotation"]
                   ELSE LoopCheck([task EXCEPT !.reconnect_timer = timer])
    /\ UNCHANGED <<session, transport, stopper, wire, now, applyVars, coordVars, supVars>>

\* lines 210-215 and 235: a "connection_ack" frame, up to the await of
\* async_get_id_token; a payload without connectionTimeoutMs is a KeyError
RecvAck ==
    /\ task.pc = "recv"
    /\ transport = "open"
    /\ \E payload \in AckPayloads :
         IF payload # None /\ payload[1] # <<>>
         THEN IF "connectionTimeoutMs" \in DOMAIN payload[1]
              THEN task' = [task EXCEPT
                       !.timeout = payload[1]["connectionTimeoutMs"] \div 1000,
                       !.pc = "token", !.acked = TRUE]
              ELSE task' = [task EXCEPT !.pc = "exit_exc", !.cause = "ack",
                                        !.acked = TRUE]
         ELSE task' = [task EXCEPT !.pc = "token", !.acked = TRUE]
    /\ UNCHANGED <<session, transport, stopper, wire, now, applyVars, coordVars, supVars>>

\* line 235 returned, lines 255-270 call websocket.send with the "start"
\* frame, which carries self._subscription_id
TokenOk ==
    /\ task.pc = "token"
    /\ task' = [task EXCEPT !.pc = "start"]
    /\ wire' = IF transport = "open"
               THEN [wire EXCEPT !.sent =
                       @ \cup {Frame("start", Some(session._subscription_id))}]
               ELSE wire
    /\ UNCHANGED <<session, transport, stopper, now, applyVars, coordVars, supVars>>

\* lines 270 and 216: the send of the "start" frame returned
StartSent ==
    /\ task.pc = "start"
    /\ transport = "open"
    /\ task' = LoopCheck(task)
    /\ UNCHANGED <<session, transport, stopper, wire, now, applyVars, coordVars, supVars>>

\* the texts of the 'reported' and 'data' fields of pushed envelopes
EmptyText == ""
NotJson == "{not json"
StateD1 == "{\"deviceId\": \"d1\", \"active\": 1}"
StateD2 == "{\"deviceId\": \"d2\", \"active\": 1}"
StateNoId == "{\"active\": 1}"
TelemetryEmpty == "{}"

\* json.loads: the decoded object, or None where it raises JSONDecodeError
json_loads(text) ==
    CASE text = StateD1 -> Some(("deviceId" :> "d1") @@ ("active" :> 1))
      [] text = StateD2 -> Some(("deviceId" :> "d2") @@ ("active" :> 1))
      [] text = StateNoId -> Some("active" :> 1)
      [] text = TelemetryEmpty -> Some(<<>>)
      [] OTHER -> None

\* a "data" frame as line 198 decoded it.  shape "absent": no 'payload'
\* key; "null": 'payload' is null; "state": payload.data.onStateUpdated
\* with 'reported' = text; "telemetry": payload.data.onDataUpdates.item with
\* 'deviceId' = dev, 'data' = text and 'timestamp' = "T"
Envelope(shape, dev, text) == [shape |-> shape, dev |-> dev, text |-> text]

DataEnvelopes ==
    { Envelope("absent", "", EmptyText), Envelope("null", "", EmptyText) }
    \cup { Envelope("state", "", t) :
             t \in {EmptyText, NotJson, StateD1, StateD2, StateNoId} }
    \cup { Envelope("telemetry", d, t) :
             d \in {"d1", "d2"}, t \in {NotJson, TelemetryEmpty} }

\* what the handlers leave behind: an exception or not, coordinator.data,
\* and whether async_set_updated_data was called
Outcome(raised, data, updated) ==
    [raised |-> raised, data |-> data, updated |-> updated]

\* coordinator.py 158-185 for payload_data of the given shape, at time t
_async_handle_ws_update(env, data, t) ==
    IF data = None THEN Outcome(FALSE, data, FALSE)
    ELSE IF env.shape = "state"
    THEN IF env.text = EmptyText THEN Outcome(FALSE, data, FALSE)
         ELSE LET loaded == json_loads(env.text)
              IN  IF loaded = None THEN Outcome(TRUE, data, FALSE)
                  ELSE LET state == loaded[1]
                           device_id == IF "deviceId" \in DOMAIN state
                                        THEN state["deviceId"] ELSE ""
                       IN  IF device_id # ""
                              /\ device_id \in DOMAIN data[1].devices
                           THEN Outcome(FALSE,
                                    Some([ data[1] EXCEPT !.devices[device_id] =
                                               _apply_state_data(@, state) ]),
                                    TRUE)
                           ELSE Outcome(FALSE, data, FALSE)
    ELSE IF env.shape = "telemetry"
    THEN IF env.dev # "" /\ env.dev \in DOMAIN data[1].devices
         THEN LET loaded == json_loads(env.text)
              IN  IF loaded = None THEN Outcome(TRUE, data, FALSE)
                  ELSE LET telemetry == ("timestamp" :> Some("T")) @@ loaded[1]
                       IN  Outcome(FALSE,
                               Some([ data[1] EXCEPT !.devices[env.dev] =
                                          _apply_telemetry_data(@, telemetry, t) ]),
                               TRUE)
         ELSE Outcome(FALSE, data, FALSE)
    ELSE Outcome(FALSE, data, FALSE)

\* websocket.py 83-89: the manager's _handle_message for a "data" frame;
\* message.get("payload", {}) is None for a null payload and .get raises
_handle_message(env, data, t) ==
    IF env.shape = "null" THEN Outcome(TRUE, data, FALSE)
    ELSE _async_handle_ws_update(env, data, t)

\* lines 217-218: a "data" frame; what the handler raises leaves the block
RecvData ==
    /\ task.pc = "recv"
    /\ transport = "open"
    /\ \E env \in DataEnvelopes :
         LET r == _handle_message(env, self_data, now)
         IN  /\ task' = IF r.raised
                        THEN [task EXCEPT !.pc = "exit_exc", !.cause = "dispatch"]
                        ELSE LoopCheck(task)
             /\ self_data' = r.data
             /\ last_update_success' = (r.updated \/ last_update_success)
    /\ UNCHANGED <<session, transport, stopper, wire, now, poll, cmd, ev, config_entry, applyVars, supVars>>

\* lines 219-227: an "error" frame or a frame of another type
RecvOther ==
    /\ task.pc = "recv"
    /\ transport = "open"
    /\ task' = LoopCheck(task)
    /\ UNCHANGED <<session, transport, stopper, wire, now, applyVars, coordVars, supVars>>

\* lines 198-199: the frame is not JSON, or not a JSON object
RecvBadJson ==
    /\ task.pc = "recv"
    /\ transport = "open"
    /\ task' = [task EXCEPT !.pc = "exit_exc", !.cause = "error"]
    /\ UNCHANGED <<session, transport, stopper, wire, now, applyVars, coordVars, supVars>>

\* RecvTimeout without the except clause of lines 186-191: the TimeoutError
\* leaves the block as an exception
RecvTimeout_Propagates ==
    /\ task.pc = "recv"
    /\ transport = "open"
    /\ task' = [task EXCEPT !.pc = "exit_exc", !.cause = "timeout"]
    /\ UNCHANGED <<session, transport, stopper, wire, now, applyVars, coordVars, supVars>>

\* lines 186-191: no frame within the current timeout
RecvTimeout ==
    /\ task.pc = "recv"
    /\ transport = "open"
    /\ task' = [task EXCEPT !.pc = "exit", !.cause = "timeout"]
    /\ UNCHANGED <<session, transport, stopper, wire, now, applyVars, coordVars, supVars>>

\* lines 192-196: the connection was closed with an error
RecvClosedError ==
    /\ task.pc = "recv"
    /\ transport # "none"
    /\ transport' = "closed"
    /\ task' = [task EXCEPT !.pc = "exit", !.cause = "closed"]
    /\ UNCHANGED <<session, stopper, wire, now, applyVars, coordVars, supVars>>

\* line 183: the connection was closed normally; ConnectionClosedOK is not
\* caught in the loop
RecvClosedOK ==
    /\ task.pc = "recv"
    /\ transport # "none"
    /\ transport' = "closed"
    /\ task' = [task EXCEPT !.pc = "exit_exc", !.cause = "error"]
    /\ UNCHANGED <<session, stopper, wire, now, applyVars, coordVars, supVars>>

\* a normal exit of the block that leaves the transport as it is
ExitDone_Leak ==
    /\ task.pc = "exit"
    /\ UNCHANGED transport
    /\ AfterCycle([session EXCEPT !._websocket = None], task.cause)
    /\ wire' = NoWire
    /\ UNCHANGED <<stopper, now, applyVars, coordVars, supVars>>

\* lines 170 and 229, then 133-146: the block is left by break or by the
\* loop test; the transport is closed and the handle is dropped
ExitDone ==
    /\ task.pc = "exit"
    /\ transport' = "closed"
    /\ AfterCycle([session EXCEPT !._websocket = None], task.cause)
    /\ wire' = NoWire
    /\ UNCHANGED <<stopper, now, applyVars, coordVars, supVars>>

\* lines 170, then 126-146: the block is left by an exception; the transport
\* is closed, line 229 is not reached
ExitRaises ==
    /\ task.pc = "exit_exc"
    /\ transport' = "closed"
    /\ AfterCycle(session, task.cause)
    /\ wire' = NoWire
    /\ UNCHANGED <<stopper, now, applyVars, coordVars, supVars>>

\* lines 146, 121 and 163: the sleep is over
BackoffWake ==
    /\ task.pc = "backoff"
    /\ task' = [task EXCEPT !.delay = 0, !.acked = FALSE, !.was_failing = FALSE,
                   !.pc = IF session._running THEN "info" ELSE "done"]
    /\ UNCHANGED <<session, transport, stopper, wire, now, applyVars, coordVars, supVars>>

\* an async_stop that goes on to close without a stop frame
StopBegin_NoFrame ==
    /\ stopper.pc = "idle"
    /\ IF session._websocket # None /\ transport = "open"
       THEN /\ session' = [session EXCEPT !._running = FALSE]
            /\ stopper' = [stopper EXCEPT !.pc = "send"]
       ELSE /\ session' = [session EXCEPT !._running = FALSE,
                                          !._websocket = None]
            /\ stopper' = [stopper EXCEPT !.pc = "done"]
    /\ UNCHANGED <<task, transport, wire, now, applyVars, coordVars, supVars>>

\* async_stop, lines 150-159.  With a handle to an open connection,
\* websocket.send is called with the stop frame, which carries
\* self._subscription_id, and awaited.  With a handle left over from a
\* cycle that ended by an exception the send raises at once, the exception
\* is passed over and the handle dropped; without a handle nothing is sent
StopBegin ==
    /\ stopper.pc = "idle"
    /\ IF session._websocket # None /\ transport = "open"
       THEN /\ session' = [session EXCEPT !._running = FALSE]
            /\ stopper' = [stopper EXCEPT !.pc = "send"]
            /\ wire' = [wire EXCEPT !.sent =
                   @ \cup {Frame("stop", Some(session._subscription_id))}]
       ELSE /\ session' = [session EXCEPT !._running = FALSE,
                                          !._websocket = None]
            /\ stopper' = [stopper EXCEPT !.pc = "done"]
            /\ UNCHANGED wire
    /\ UNCHANGED <<task, transport, now, applyVars, coordVars, supVars>>

\* lines 155-159: the send of the stop frame returned and close is awaited;
\* or the send raised (always so once the connection is closed), the
\* exception is passed over and the handle dropped
StopSend ==
    /\ stopper.pc = "send"
    /\ \E ok \in BOOLEAN :
         IF ok /\ transport = "open"
         THEN /\ stopper' = [stopper EXCEPT !.pc = "close"]
              /\ UNCHANGED session
         ELSE /\ stopper' = [stopper EXCEPT !.pc = "done"]
              /\ session' = [session EXCEPT !._websocket = None]
    /\ UNCHANGED <<task, transport, wire, now, applyVars, coordVars, supVars>>

\* lines 156-159: close returned, or raised and the exception is passed
\* over; the handle is dropped
StopClose ==
    /\ stopper.pc = "close"
    /\ \E ok \in BOOLEAN :
         transport' = IF ok THEN "closed" ELSE transport
    /\ session' = [session EXCEPT !._websocket = None]
    /\ stopper' = [stopper EXCEPT !.pc = "done"]
    /\ UNCHANGED <<task, wire, now, applyVars, coordVars, supVars>>

\* task.cancel() (HarviaWebSocketManager.async_stop, lines 72-77, after the
\* session's async_stop returned): CancelledError is raised at the await the
\* task is suspended at.  Inside the try of async_run it is caught (line
\* 124) and the task returns, the block closing the transport on the way;
\* in the sleep, and before the task first ran, the task ends cancelled
Cancel ==
    /\ stopper.pc = "done"
    /\ ~stopper.cancel
    /\ task.pc \notin Over
    /\ stopper' = [stopper EXCEPT !.cancel = TRUE]
    /\ task' = Returned(IF task.pc \in {"new", "backoff"}
                        THEN "cancelled" ELSE "done", "cancel")
    /\ transport' = IF task.pc \in InContext \cup Exiting
                    THEN "closed" ELSE transport
    /\ wire' = NoWire
    /\ UNCHANGED <<session, now, applyVars, coordVars, supVars>>

NextSession ==
    \/ RunStart \/ InfoOk \/ UrlOk \/ AttemptRaises \/ ConnectOk
    \/ InitSent \/ SendRaises
    \/ RecvKa \/ RecvAck \/ TokenOk \/ StartSent
    \/ RecvData \/ RecvOther \/ RecvBadJson
    \/ RecvTimeout \/ RecvClosedError \/ RecvClosedOK
    \/ ExitDone \/ ExitRaises \/ BackoffWake
    \/ StopBegin \/ StopSend \/ StopClose \/ Cancel

SpecSession == InitSession /\ [][NextSession]_vars

\* the event loop resumes a task whose awaited close or sleep has completed
SpecSessionFair ==
    /\ SpecSession
    /\ WF_vars(ExitDone)
    /\ WF_vars(BackoffWake)

\* line 166 once the identifiers of the model are used up: the session runs
\* on and the identifiers are counted from 1 again
UrlOkWrap ==
    /\ task.pc = "url"
    /\ session._subscription_id = MaxIds
    /\ session' = [session EXCEPT !._subscription_id = 1]
    /\ task' = [task EXCEPT !.pc = "connect"]
    /\ UNCHANGED <<transport, stopper, wire, now, applyVars, coordVars, supVars>>

\* a session that is never stopped or cancelled, with a server that accepts
\* every connection attempt
NextSessionLive ==
    \/ RunStart \/ InfoOk \/ UrlOk \/ UrlOkWrap \/ ConnectOk
    \/ InitSent \/ SendRaises
    \/ RecvKa \/ RecvAck \/ TokenOk \/ StartSent
    \/ RecvData \/ RecvOther \/ RecvBadJson
    \/ RecvTimeout \/ RecvClosedError \/ RecvClosedOK
    \/ ExitDone \/ ExitRaises \/ BackoffWake

\* the event loop runs the task whenever it can run; the server answers the
\* requests before the connection, acknowledges connections again and
\* again, and sends and token requests do not fail for ever
SpecSessionLive ==
    /\ InitSession
    /\ [][NextSessionLive]_vars
    /\ WF_vars(RunStart) /\ WF_vars(InfoOk) /\ WF_vars(UrlOk) /\ WF_vars(UrlOkWrap)
    /\ WF_vars(ConnectOk)
    /\ WF_vars(ExitDone) /\ WF_vars(ExitRaises) /\ WF_vars(BackoffWake)
    /\ SF_vars(InitSent) /\ SF_vars(RecvAck)
    /\ SF_vars(TokenOk) /\ SF_vars(StartSent)

----------------------------------------------------------------------------
(* Claims about the session *)

\* C9: async_run does not return and does not raise because of an error in
\* a connection attempt: whenever the task is over, a stop was requested
\* (a cancellation follows a stop) and the task did not end by raising.
C9_RunEndsOnlyOnStopOrCancel ==
    task.pc \in Over => task.pc # "raised" /\ stopper.pc # "idle"

\* the read of the receive loop timed out and the cycle it ended is the
\* last one that ended
HeartbeatLost == task.cause = "timeout"

\* C10: when no frame arrives within the current timeout, the session
\* leaves the receive loop by break, the transport is closed and the handle
\* dropped before the backoff begins, the backoff is followed by a new
\* connection attempt, and the task does not end by raising; a task that
\* is not stopped does reach the new attempt.
C10_LostHeartbeat ==
    /\ [](HeartbeatLost => task.pc \notin {"exit_exc", "raised"})
    /\ [](HeartbeatLost /\ task.pc = "backoff"
            => transport = "closed" /\ session._websocket = None)
    /\ [][ /\ HeartbeatLost
           /\ task.pc = "exit"
           /\ task'.pc # "exit"
           /\ ~stopper'.cancel
           => IF session._running
              THEN /\ task'.pc = "backoff"
                   /\ task'.delay \in 1..2
                   /\ session'._reconnect_attempts = 1
              ELSE task'.pc = "done" ]_vars
    /\ [][ /\ HeartbeatLost
           /\ task.pc = "backoff"
           /\ task'.pc # "backoff"
           /\ ~stopper'.cancel
           => task'.pc = IF session._running THEN "info" ELSE "done" ]_vars
    /\ (HeartbeatLost /\ task.pc = "exit")
          ~> (\/ HeartbeatLost /\ task.pc = "info"
              \/ stopper.pc # "idle")

C10_Witness ==
    /\ HeartbeatLost
    /\ task.pc = "info"
    /\ session._reconnect_attempts = 1
    /\ transport = "closed"
    /\ stopper.pc = "idle"

\* a connection cycle ends in this step, other than by cancellation
CycleEnds ==
    /\ task.pc \notin Over \cup {"backoff"}
    /\ task'.pc \in Over \cup {"backoff"}
    /\ task'.cause # "cancel"

\* 2 ^ n as far as min(2 ^ n + jitter, 60) depends on it
Pow2Capped(n) == 2 ^ Min(n, 6)

\* C11: every cycle that ends while the session is not stopped is followed
\* by a wait of min(2^N + jitter, 60) seconds, N being the counter at the
\* end of the cycle; the wait is at most 60 s and the counter goes up by one.
C11_BackoffDelay ==
    [][ CycleEnds /\ session._running
        => LET N == session._reconnect_attempts
           IN  /\ task'.pc = "backoff"
               /\ \E j \in Jitter :
                    task'.delay = Min(Pow2Capped(N) + j, WS_MAX_RECONNECT_DELAY)
               /\ task'.delay <= WS_MAX_RECONNECT_DELAY
               /\ session'._reconnect_attempts = N + 1 ]_vars

\* C12: a cycle in which connection_ack was received and that ends while the
\* session is not stopped is followed by the delay of N = 0,
\* min(2^0 + jitter, 60), however many cycles had failed before its
\* transport opened.
C12_BackoffResetAfterSuccess ==
    [][ CycleEnds /\ task.acked /\ session._running
        => /\ task'.pc = "backoff"
           /\ \E j \in Jitter :
                task'.delay = Min(2 ^ 0 + j, WS_MAX_RECONNECT_DELAY)
           /\ session'._reconnect_attempts = 1 ]_vars

C12_Witness ==
    /\ task.pc = "backoff"
    /\ task.acked
    /\ task.was_failing
    /\ task.delay \in 1..2
    /\ session._reconnect_attempts = 1
    /\ stopper.pc = "idle"

\* the stop frame for the subscription of the current connection
StopFrame == Frame("stop", wire.id)

\* C17: async_stop called on a connected session sends the stop frame; the
\* frame carries the identifier of the subscription of the current
\* connection and goes out while the transport is open; async_stop closes
\* the transport only after that frame was sent; and whether the send or
\* the close fails or not, async_stop returns (it never ends raised).
C17_StopOrdering ==
    [][ /\ stopper.pc = "idle" /\ stopper'.pc # "idle"
           /\ session._websocket # None /\ transport = "open"
           => /\ stopper'.pc = "send"
              /\ transport' = "open"
              /\ wire.id # None
              /\ wire'.sent = wire.sent \cup {StopFrame}
        /\ stopper.pc = "send" /\ stopper'.pc = "close"
           => transport = "open" /\ transport' = "open" /\ StopFrame \in wire.sent
        /\ stopper'.pc # stopper.pc /\ transport' # transport
           => /\ stopper.pc = "close"
              /\ StopFrame \in wire.sent
              /\ transport' = "closed"
        /\ stopper.pc \in {"send", "close"} /\ stopper'.pc # stopper.pc
           => /\ stopper'.pc \in {"close", "done"}
              /\ stopper'.pc = "done" => session'._websocket = None
      ]_vars

\* async_stop returned after the stop frame of the subscribed connection
\* and the close
C17_Witness ==
    /\ stopper.pc = "done"
    /\ transport = "closed"
    /\ wire.id # None
    /\ Frame("start", wire.id) \in wire.sent
    /\ StopFrame \in wire.sent
    /\ session._websocket = None

\* C23: the attempt counter returns to zero only in the step that handles a
\* connection_ack; the opening of the transport alone does not reset it.
C23_ResetOnlyOnAck ==
    [][ session._reconnect_attempts > 0 /\ session'._reconnect_attempts = 0
        => task.pc = "recv" /\ task'.acked ]_vars

\* C24: the handling of a connection_ack never ends the cycle: whatever the
\* payload is, the task goes on to the token and the start frame, with the
\* timeout of the payload if it names one and the timeout it had otherwise.
C24_AckAlwaysSubscribes ==
    [][ task.pc = "recv" /\ task'.acked
           /\ (task'.pc = "token" \/ task'.cause = "ack")
        => /\ task'.pc = "token"
           /\ task'.timeout \in {task.timeout, 60} ]_vars

\* the step that handles a "ka" frame
KaStep ==
    /\ task.pc = "recv"
    /\ task'.pc \in InContext \cup Exiting
    /\ task'.reconnect_timer = task.reconnect_timer + task.timeout

\* C36: the session's transport is open only while its task is inside the
\* connection block: whenever a connection cycle has ended - by heartbeat
\* timeout, rotation, transport close, error or stop - the transport is
\* closed before the task sleeps in backoff, starts its next attempt or
\* ends, so a new transport is opened only when none is open.
C36_OneTransportClosedOnExit ==
    task.pc \notin InContext \cup Exiting => transport # "open"

\* a cycle ended by a heartbeat timeout and the task is in backoff, the
\* transport closed
C36_Witness ==
    /\ task.pc = "backoff"
    /\ task.cause = "timeout"
    /\ transport = "closed"
    /\ session._running

\* the start frame of the current connection was sent after its ack
Subscribed ==
    /\ task.acked
    /\ transport = "open"
    /\ Frame("start", wire.id) \in wire.sent

\* C37: for a session that is never stopped or cancelled, with a server that
\* accepts and acknowledges connections, every end of a connection cycle
\* is eventually followed by a connection that received connection_ack and
\* sent its start frame.
C37_SubscriptionLiveness ==
    (task.pc = "backoff") ~> Subscribed

\* C25: on a connection the accumulator starts at zero; a "ka" frame adds the
\* current timeout to it and no other frame changes it; the receive loop is
\* left for rotation on the first "ka" frame that takes the accumulator to
\* WS_RECONNECT_INTERVAL or beyond, and only then.
C25_PeriodicRotation ==
    [][ /\ task.pc = "init" /\ task'.pc \in InContext \cup Exiting
           => task'.reconnect_timer = 0
        /\ task.pc \in InContext \ {"init"} /\ task'.pc \in InContext \cup Exiting
           => \/ task'.reconnect_timer = task.reconnect_timer
              \/ KaStep
        /\ task.pc \in InContext => task.reconnect_timer < WS_RECONNECT_INTERVAL
        /\ KaStep /\ task'.reconnect_timer >= WS_RECONNECT_INTERVAL
           => task'.pc = "exit" /\ task'.cause = "rotation"
        /\ task.pc \in InContext /\ task'.pc = "exit" /\ task'.cause = "rotation"
           => KaStep /\ task'.reconnect_timer >= WS_RECONNECT_INTERVAL
      ]_vars

\* the sixth "ka" frame of a connection that kept the timeout of 300 s
C25_Witness ==
    /\ task.pc = "exit" /\ task.cause = "rotation"
    /\ ~task.acked
    /\ task.timeout = WS_HEARTBEAT_TIMEOUT
    /\ task.reconnect_timer = 6 * WS_HEARTBEAT_TIMEOUT
    /\ task.reconnect_timer = WS_RECONNECT_INTERVAL

\* C26: right after a connection_ack was handled the accumulator is zero.
C26_AckResetsAccumulator ==
    [][ task.pc = "recv" /\ task'.pc = "token" => task'.reconnect_timer = 0 ]_vars

\* the step in which the transport of a new connection opens
Opens == transport # "open" /\ transport' = "open"

\* the frames a step puts on the wire
NewFrames == wire'.sent \ wire.sent

\* C27: the step that opens the transport sends connection_init and nothing
\* else, and no connection_ack has been seen on the connection then; a start
\* frame is sent only by the task that handled a connection_ack on this
\* connection, after connection_init; and a "data" frame reaches the handler
\* only from the receive loop of an open connection.
C27_HandshakeOrdering ==
    [][ /\ Opens => /\ wire'.sent = {Frame("connection_init", None)}
                    /\ ~task'.acked
        /\ \A f \in NewFrames : f.type = "start" =>
              /\ task.pc = "token" /\ task.acked
              /\ transport = "open"
              /\ Frame("connection_init", None) \in wire.sent
        /\ \A f \in NewFrames : f.type = "connection_init" => Opens
        /\ (\/ self_data' # self_data
            \/ last_update_success' # last_update_success
            \/ task'.cause = "dispatch" /\ task.cause # "dispatch")
           => task.pc = "recv" /\ transport = "open"
      ]_vars

\* a connection that sent connection_init, was acknowledged, sent start and
\* has passed a pushed state to the handler
C27_Witness ==
    /\ task.pc = "recv" /\ transport = "open"
    /\ task.acked
    /\ wire.sent = {Frame("connection_init", None), Frame("start", wire.id)}
    /\ self_data # FirstRefresh

\* C28: every attempt that reaches the connect has generated an identifier
\* larger than, so different from, all the session had before; the
\* connection it opens is labelled with it; the identifier does not change
\* while the connection is open; and every start and stop frame carries the
\* identifier of the connection it is sent on.
C28_FreshSubscriptionId ==
    [][ /\ session'._subscription_id >= session._subscription_id
        /\ task.pc = "url" /\ task'.pc = "connect"
           => session'._subscription_id > session._subscription_id
        /\ Opens => /\ wire'.id = Some(session'._subscription_id)
                    /\ session'._subscription_id = session._subscription_id
                    /\ task.pc = "connect"
        /\ transport = "open" /\ transport' = "open"
           => /\ session'._subscription_id = session._subscription_id
              /\ wire'.id = wire.id
        /\ \A f \in NewFrames : f.type \in {"start", "stop"} =>
              /\ wire.id # None
              /\ f.id = wire.id
              /\ f.id = Some(session._subscription_id)
      ]_vars

\* the second connection of a session, subscribed and stopped under its
\* own identifier, which is not that of the first
C28_Witness ==
    /\ transport = "open"
    /\ wire.id = Some(2)
    /\ session._subscription_id = 2
    /\ Frame("start", Some(2)) \in wire.sent
    /\ Frame("stop", Some(2)) \in wire.sent
    /\ Frame("start", Some(1)) \notin wire.sent

\* C29: once async_stop has been called, in whatever phase the task was,
\* the session stays stopped (_running is not set again) and opens no new
\* transport.
C29_StoppedIsTerminal ==
    [][ stopper.pc # "idle" => ~session'._running /\ ~Opens ]_vars

\* C18: no connection cycle is ended by an exception that came out of the
\* handler of a "data" frame: whatever the payload of the frame is, the
\* handler returns and the receive loop goes on.
C18_DispatcherNeverRaises == task.cause # "dispatch"

----------------------------------------------------------------------------
(* SpecSupervisor: the HarviaWebSocketManager and the sessions it owns.     *)
(* Calls of async_start and async_stop do not overlap (the coordinator      *)
(* awaits each of them).  A session is followed from one phase of its       *)
(* cycle to the next: "attempt" stands for the awaits before the transport  *)
(* is open, "recv" for the receive loop with its sends.  _reconnect_attempts *)
(* is left out: it stays below FloatMaxExp here (SpecSession follows it).   *)

MaxStarts == 2

\* what async_get_user_data returns
UserData == [organizationId |-> "org", email |-> "user"]

\* ConnectionConfigs with the second entry a copy of the first
ConnectionConfigs_Dup(user_data) ==
    << <<"device", user_data.organizationId, FALSE>>,
       <<"device", user_data.organizationId, FALSE>>,
       <<"data", user_data.organizationId, FALSE>>,
       <<"data", user_data.email, TRUE>> >>

\* lines 44-49
ConnectionConfigs(user_data) ==
    << <<"device", user_data.organizationId, FALSE>>,
       <<"device", user_data.email, TRUE>>,
       <<"data", user_data.organizationId, FALSE>>,
       <<"data", user_data.email, TRUE>> >>

\* lines 52-58 with 104-110: a session as constructed
ManagedSession(cfg) ==
    [_endpoint |-> cfg[1], _receiver |-> cfg[2], _is_user_receiver |-> cfg[3],
     _running |-> FALSE, _websocket |-> None]

\* line 60: the task of a session as created; timeout is its local variable
\* (0 while it does not exist), transport tells whether the connection of
\* its current attempt is open ("closed" also while there is none), ack is
\* the connectionTimeoutMs of the last connection_ack payload that set the
\* timeout of the current connection
ManagedTask == [pc |-> "new", timeout |-> 0, transport |-> "closed", ack |-> None]

InitSupervisor ==
    /\ now = 0
    /\ rec = HarviaDeviceData("")
    /\ op = NoOp
    /\ applied = 0
    /\ run = None
    /\ CoordinatorInit
    /\ config_entry = DefaultEntry
    /\ SessionInit
    /\ SupervisorInit

otherVars == <<now, applyVars, coordVars, sessVars>>

\* StartNoop without the guard of lines 37-38: the sessions are created again
StartNoop_Again ==
    /\ call.op = "none"
    /\ call.starts < MaxStarts
    /\ manager._running
    /\ LET cfgs == ConnectionConfigs(UserData)
       IN  manager' = [manager EXCEPT
               !._connections = @ \o [k \in 1..4 |-> ManagedSession(cfgs[k])],
               !._tasks = @ \o [k \in 1..4 |-> ManagedTask]]
    /\ call' = [call EXCEPT !.starts = @ + 1, !.last = "noop"]
    /\ UNCHANGED otherVars

\* lines 37-38: async_start on a manager that is marked running returns
StartNoop ==
    /\ call.op = "none"
    /\ call.starts < MaxStarts
    /\ manager._running
    /\ call' = [call EXCEPT !.starts = @ + 1, !.last = "noop"]
    /\ UNCHANGED <<manager, otherVars>>

\* lines 37-41: async_start up to the await of async_get_user_data
StartBegin ==
    /\ call.op = "none"
    /\ call.starts < MaxStarts
    /\ ~manager._running
    /\ manager' = [manager EXCEPT !._running = TRUE]
    /\ call' = [call EXCEPT !.op = "start", !.pc = "user_data",
                            !.starts = @ + 1]
    /\ UNCHANGED otherVars

\* lines 41-63: the user data arrived; the four sessions and their tasks
\* are created and async_start returns
StartResolved ==
    /\ call.op = "start"
    /\ LET cfgs == ConnectionConfigs(UserData)
       IN  manager' = [manager EXCEPT
               !._connections = @ \o [k \in 1..4 |-> ManagedSession(cfgs[k])],
               !._tasks = @ \o [k \in 1..4 |-> ManagedTask]]
    /\ call' = [call EXCEPT !.op = "none", !.pc = "", !.last = "started"]
    /\ UNCHANGED otherVars

\* line 41: async_get_user_data raises, and so does async_start
StartFails ==
    /\ call.op = "start"
    /\ call' = [call EXCEPT !.op = "none", !.pc = "", !.last = "failed"]
    /\ UNCHANGED <<manager, otherVars>>

\* the session i and its task become conn and tsk
Upd(i, conn, tsk) ==
    manager' = [manager EXCEPT !._connections[i] = conn, !._tasks[i] = tsk]

\* lines 126-146 without the counter: backoff unless the session is stopped
Ended(conn) == IF conn._running THEN "backoff" ELSE "done"

\* the task is outside the `async with` block; its transport, if any, is tr
Outside(pc, tr) == [pc |-> pc, timeout |-> 0, transport |-> tr, ack |-> None]

\* line 181 after a frame was handled: the loop goes on, or the block is
\* left, the transport closed and the handle dropped (line 229)
Looped(i, conn, tsk) ==
    IF conn._running
    THEN Upd(i, conn, tsk)
    ELSE Upd(i, [conn EXCEPT !._websocket = None], Outside("done", "closed"))

\* lines 119-123: the task starts
TaskStart ==
    /\ \E i \in DOMAIN manager._tasks :
         /\ manager._tasks[i].pc = "new"
         /\ Upd(i, [manager._connections[i] EXCEPT !._running = TRUE],
                [manager._tasks[i] EXCEPT !.pc = "attempt"])
    /\ UNCHANGED <<call, otherVars>>

\* lines 163-170, 126-146: an await before the transport is open raises
TaskAttemptFails ==
    /\ \E i \in DOMAIN manager._tasks :
         LET conn == manager._connections[i]
             tsk == manager._tasks[i]
         IN  /\ tsk.pc = "attempt"
             /\ Upd(i, conn, [tsk EXCEPT !.pc = Ended(conn)])
    /\ UNCHANGED <<call, otherVars>>

\* lines 168-183: the transport opens, connection_init is sent and the
\* receive loop is entered (or left at once by a stopped session)
TaskConnects ==
    /\ \E i \in DOMAIN manager._tasks :
         LET conn == manager._connections[i]
             tsk == manager._tasks[i]
         IN  /\ tsk.pc = "attempt"
             /\ Looped(i, [conn EXCEPT !._websocket = Some("ws")],
                       [pc |-> "recv", timeout |-> WS_HEARTBEAT_TIMEOUT,
                        transport |-> "open", ack |-> None])
    /\ UNCHANGED <<call, otherVars>>

\* TaskAck with the timeout kept in one place for all sessions
TaskAck_Shared ==
    /\ \E i \in DOMAIN manager._tasks :
         LET tsk == manager._tasks[i]
             T == 60000
         IN  /\ tsk.pc = "recv"
             /\ tsk.transport = "open"
             /\ manager._connections[i]._running
             /\ manager' = [manager EXCEPT !._tasks =
                    [j \in DOMAIN @ |->
                        IF j = i
                        THEN [@[j] EXCEPT !.timeout = T \div 1000, !.ack = Some(T)]
                        ELSE IF @[j].pc = "recv"
                             THEN [@[j] EXCEPT !.timeout = T \div 1000]
                             ELSE @[j]]]
    /\ UNCHANGED <<call, otherVars>>

\* lines 210-216: a connection_ack frame and the subscription
TaskAck ==
    /\ \E i \in DOMAIN manager._tasks : \E payload \in AckPayloads :
         LET conn == manager._connections[i]
             tsk == manager._tasks[i]
         IN  /\ tsk.pc = "recv"
             /\ tsk.transport = "open"
             /\ IF payload # None /\ payload[1] # <<>>
                THEN IF "connectionTimeoutMs" \in DOMAIN payload[1]
                     THEN Looped(i, conn, [tsk EXCEPT
                            !.timeout = payload[1]["connectionTimeoutMs"] \div 1000,
                            !.ack = Some(payload[1]["connectionTimeoutMs"])])
                     ELSE Upd(i, conn, Outside(Ended(conn), "closed"))
                ELSE Looped(i, conn, tsk)
    /\ UNCHANGED <<call, otherVars>>

\* lines 201-227: a frame of another type that does not end the cycle
TaskFrame ==
    /\ \E i \in DOMAIN manager._tasks :
         /\ manager._tasks[i].pc = "recv"
         /\ manager._tasks[i].transport = "open"
         /\ Looped(i, manager._connections[i], manager._tasks[i])
    /\ UNCHANGED <<call, otherVars>>

\* lines 186-196, 204-209, 229: the loop is left by break (timeout,
\* connection closed with an error, periodic reconnect)
TaskCycleEnds ==
    /\ \E i \in DOMAIN manager._tasks :
         LET conn == manager._connections[i]
         IN  /\ manager._tasks[i].pc = "recv"
             /\ Upd(i, [conn EXCEPT !._websocket = None],
                    Outside(Ended(conn), "closed"))
    /\ UNCHANGED <<call, otherVars>>

\* lines 183-218, 126-131: an exception leaves the block (connection closed
\* normally, a frame that is not JSON, a send or the handler raising)
TaskCycleRaises ==
    /\ \E i \in DOMAIN manager._tasks :
         LET conn == manager._connections[i]
         IN  /\ manager._tasks[i].pc = "recv"
             /\ Upd(i, conn, Outside(Ended(conn), "closed"))
    /\ UNCHANGED <<call, otherVars>>

\* lines 146, 121: the sleep is over
TaskWakes ==
    /\ \E i \in DOMAIN manager._tasks :
         LET conn == manager._connections[i]
             tsk == manager._tasks[i]
         IN  /\ tsk.pc = "backoff"
             /\ Upd(i, conn, [tsk EXCEPT
                    !.pc = IF conn._running THEN "attempt" ELSE "done"])
    /\ UNCHANGED <<call, otherVars>>

\* lines 69-72: the loop over the sessions goes on, or the loop over the
\* tasks begins
Advance(i) ==
    IF i < Len(manager._connections)
    THEN [call EXCEPT !.pc = "stop", !.i = i + 1]
    ELSE [call EXCEPT !.pc = "cancel", !.i = 1]

\* lines 67-69: async_stop of the manager begins
SupStop ==
    /\ call.op = "none"
    /\ manager' = [manager EXCEPT !._running = FALSE]
    /\ call' = [call EXCEPT
           !.op = "stop", !.i = 1,
           !.pc = IF manager._connections = <<>> THEN "cancel" ELSE "stop",
           !.all_backoff = /\ manager._tasks # <<>>
                           /\ \A k \in DOMAIN manager._tasks :
                                manager._tasks[k].pc = "backoff"]
    /\ UNCHANGED otherVars

\* lines 70, 150-155: async_stop of session i, up to the send of the stop
\* frame if the session holds a handle
SupStopSession ==
    /\ call.op = "stop"
    /\ call.pc = "stop"
    /\ LET i == call.i
           conn == manager._connections[i]
       IN  /\ manager' = [manager EXCEPT !._connections[i]._running = FALSE]
           /\ call' = IF conn._websocket # None
                      THEN [call EXCEPT !.pc = "send"]
                      ELSE Advance(i)
    /\ UNCHANGED otherVars

\* lines 155-159: the stop frame went out and close is awaited, or the send
\* raised on a closed connection and the handle is dropped
SupStopSend ==
    /\ call.op = "stop"
    /\ call.pc = "send"
    /\ LET i == call.i
       IN  IF manager._tasks[i].transport = "open"
           THEN /\ call' = [call EXCEPT !.pc = "close"]
                /\ UNCHANGED manager
           ELSE /\ call' = Advance(i)
                /\ manager' = [manager EXCEPT !._connections[i]._websocket = None]
    /\ UNCHANGED otherVars

\* lines 156-159: close returned
SupStopClose ==
    /\ call.op = "stop"
    /\ call.pc = "close"
    /\ LET i == call.i
       IN  /\ manager' = [manager EXCEPT
                  !._connections[i]._websocket = None,
                  !._tasks[i].transport = "closed"]
           /\ call' = Advance(i)
    /\ UNCHANGED otherVars

\* SupCancel without lines 73-77: the task is neither cancelled nor awaited
SupCancel_Skip ==
    /\ call.op = "stop"
    /\ call.pc = "cancel"
    /\ call.i <= Len(manager._tasks)
    /\ call' = [call EXCEPT !.i = @ + 1]
    /\ UNCHANGED <<manager, otherVars>>

\* lines 72-77: task i is cancelled and awaited.  A task that is over is
\* left as it is; CancelledError raised in the try of async_run ends the
\* task by break, the block closing the transport on the way; raised in the
\* sleep, or before the task ran, it ends the task as cancelled
SupCancel ==
    /\ call.op = "stop"
    /\ call.pc = "cancel"
    /\ call.i <= Len(manager._tasks)
    /\ LET i == call.i
           tsk == manager._tasks[i]
       IN  manager' = [manager EXCEPT !._tasks[i] =
               IF tsk.pc \in {"done", "cancelled"} THEN tsk
               ELSE IF tsk.pc \in {"new", "backoff"}
                    THEN Outside("cancelled", tsk.transport)
               ELSE Outside("done", IF tsk.pc = "recv" THEN "closed"
                                    ELSE tsk.transport)]
    /\ call' = [call EXCEPT !.i = @ + 1]
    /\ UNCHANGED otherVars

\* lines 79-81: the lists are cleared and async_stop returns
SupStopReturn ==
    /\ call.op = "stop"
    /\ call.pc = "cancel"
    /\ call.i > Len(manager._tasks)
    /\ manager' = [manager EXCEPT !._connections = <<>>, !._tasks = <<>>]
    /\ call' = [call EXCEPT !.op = "none", !.pc = "", !.i = 0,
                            !.last = "stopped"]
    /\ UNCHANGED otherVars

NextSupervisor ==
    \/ StartNoop \/ StartBegin \/ StartResolved \/ StartFails
    \/ TaskStart \/ TaskAttemptFails \/ TaskConnects
    \/ TaskAck \/ TaskFrame \/ TaskCycleEnds \/ TaskCycleRaises \/ TaskWakes
    \/ SupStop \/ SupStopSession \/ SupStopSend \/ SupStopClose
    \/ SupCancel \/ SupStopReturn

SpecSupervisor == InitSupervisor /\ [][NextSupervisor]_vars

(* SpecSupervisorOverlap: calls of async_start and async_stop that overlap. *)
(* async_start may be called at any time, also while an earlier async_start *)
(* or an async_stop is suspended; call follows the async_stop in flight and *)
(* call.pending counts the suspended calls of async_start.  Of a session    *)
(* only the start of its task is followed, so no session holds a transport  *)
(* and async_stop is suspended only where it awaits a cancelled task.       *)

\* lines 37-41: async_start is called; it returns at once on a manager that
\* is marked running, and otherwise marks it and awaits the user data
StartCalled ==
    /\ call.starts < MaxStarts
    /\ IF manager._running
       THEN /\ call' = [call EXCEPT !.starts = @ + 1]
            /\ UNCHANGED manager
       ELSE /\ call' = [call EXCEPT !.starts = @ + 1, !.pending = @ + 1]
            /\ manager' = [manager EXCEPT !._running = TRUE]
    /\ UNCHANGED otherVars

\* lines 41-63: the user data arrived for a suspended async_start; the four
\* sessions and their tasks are appended
StartResumes ==
    /\ call.pending > 0
    /\ LET cfgs == ConnectionConfigs(UserData)
       IN  manager' = [manager EXCEPT
               !._connections = @ \o [k \in 1..4 |-> ManagedSession(cfgs[k])],
               !._tasks = @ \o [k \in 1..4 |-> ManagedTask]]
    /\ call' = [call EXCEPT !.pending = @ - 1]
    /\ UNCHANGED otherVars

\* line 41 raises in a suspended async_start
StartRaises ==
    /\ call.pending > 0
    /\ call' = [call EXCEPT !.pending = @ - 1]
    /\ UNCHANGED <<manager, otherVars>>

\* lines 67-75: async_stop is called while no other async_stop is at work.
\* No session holds a transport, so every session's async_stop returns
\* without a suspension; with no task in the list the call clears the lists
\* and returns, otherwise it cancels the first task and awaits it
StopCalled ==
    /\ call.op = "none"
    /\ manager' = [manager EXCEPT
           !._running = FALSE,
           !._connections = [k \in DOMAIN @ |-> [@[k] EXCEPT !._running = FALSE]]]
    /\ call' = IF manager._tasks = <<>>
               THEN [call EXCEPT !.last = "stopped"]
               ELSE [call EXCEPT !.op = "stop", !.pc = "cancel", !.i = 1]
    /\ UNCHANGED otherVars

NextSupervisorOverlap ==
    \/ StartCalled \/ StartResumes \/ StartRaises
    \/ TaskStart
    \/ StopCalled \/ SupCancel \/ SupStopReturn

SpecSupervisorOverlap == InitSupervisor /\ [][NextSupervisorOverlap]_vars

\* the event loop runs the steps async_stop takes by itself: the next
\* session's async_stop, the cancellation of a task, the return.  When a
\* send or a close on the network completes is not the program's to decide
SpecSupervisorFair ==
    /\ SpecSupervisor
    /\ WF_vars(SupStopSession)
    /\ WF_vars(SupCancel)
    /\ WF_vars(SupStopReturn)

----------------------------------------------------------------------------
(* Claims about the manager and its sessions *)

Tasks == manager._tasks

\* C13: in the receive loop the read timeout of a session is 300 s until a
\* connection_ack payload with connectionTimeoutMs = T arrived on that
\* connection and T/1000 s from then on; a session that receives such a
\* payload changes nothing of any other session; every connection that is
\* opened starts with 300 s.
C13_PerSessionTimeout ==
    /\ [](\A i \in DOMAIN Tasks :
            Tasks[i].pc = "recv"
            => Tasks[i].timeout = IF Tasks[i].ack = None
                                  THEN WS_HEARTBEAT_TIMEOUT
                                  ELSE Tasks[i].ack[1] \div 1000)
    /\ [][ \A i \in DOMAIN Tasks \cap DOMAIN Tasks' :
             /\ (Tasks'[i].ack # None /\ Tasks'[i].ack # Tasks[i].ack)
                => \A j \in (DOMAIN Tasks \cap DOMAIN Tasks') \ {i} :
                     Tasks'[j] = Tasks[j]
             /\ (Tasks[i].pc # "recv" /\ Tasks'[i].pc = "recv")
                => /\ Tasks'[i].timeout = WS_HEARTBEAT_TIMEOUT
                   /\ Tasks'[i].ack = None ]_vars

C13_Witness ==
    \E i, j \in DOMAIN Tasks :
        /\ Tasks[i].pc = "recv"
        /\ Tasks[i].ack = Some(60000)
        /\ Tasks[i].timeout = 60
        /\ Tasks[j].pc = "recv"
        /\ Tasks[j].timeout = 300

Connections == manager._connections

\* the (channel, receiver scope) pair of a session
Pair(conn) == <<conn._endpoint, conn._is_user_receiver>>

\* C14: when a call of async_start that resolved the user data returns, the
\* manager owns exactly four sessions, one for each pair of a channel
\* (device, data) and a receiver scope (organization, user), each with the
\* receiver of its scope, and four tasks, one per session, none of which
\* has run yet; between calls it owns four sessions or none.
C14_SupervisorTopology ==
    /\ [](/\ Len(Connections) \in {0, 4}
          /\ Len(Tasks) = Len(Connections))
    /\ [][ call.op = "start" /\ call'.op = "none" /\ call'.last = "started"
           => /\ Len(Connections') = 4
              /\ Len(Tasks') = 4
              /\ { Pair(Connections'[k]) : k \in 1..4 }
                   = {"device", "data"} \X BOOLEAN
              /\ \A k \in 1..4 :
                   /\ Connections'[k]._receiver =
                        IF Connections'[k]._is_user_receiver
                        THEN UserData.email ELSE UserData.organizationId
                   /\ Tasks'[k].pc = "new" ]_vars

C14_Witness ==
    /\ call.op = "none"
    /\ call.last = "started"
    /\ manager._running
    /\ Len(Connections) = 4
    /\ \A k \in 1..4 : Tasks[k].pc = "new"

\* C15: a call of async_start on a manager that is marked running and owns
\* its four sessions returns without changing the manager: no session and
\* no task is added, the four sessions and their tasks are the same.
C15_IdempotentStart ==
    [][ /\ call.op = "none"
        /\ call'.starts > call.starts
        /\ manager._running
        /\ Len(Connections) = 4
        => /\ manager' = manager
           /\ call'.op = "none" ]_vars

C15_Witness ==
    /\ call.op = "none"
    /\ call.last = "noop"
    /\ call.starts = 2
    /\ manager._running
    /\ Len(Connections) = 4
    /\ Len(Tasks) = 4

C38_SessionCountBounded ==
    /\ Len(manager._connections) <= 4
    /\ Len(manager._tasks) <= 4
    /\ (~manager._running /\ call.op # "stop")
          => \A i \in DOMAIN manager._connections :
                ~manager._connections[i]._running

\* C39: an async_start that fails while it resolves the user data leaves
\* the manager not marked running, and the next async_start after it begins
\* the full start instead of returning at once.
C39_FailedStartRetriable ==
    [][ /\ (call.op = "start" /\ call'.op = "none" /\ call'.last = "failed")
           => ~manager'._running
        /\ (call.op = "none" /\ call.last = "failed"
            /\ call'.starts = call.starts + 1)
           => call'.op = "start" ]_vars

\* C30: a call of the manager's async_stop returns in the end, also when
\* the send of a stop frame or the close of a transport never completes.
C30_HungCloseDoesNotBlock == (call.op = "stop") ~> (call.op = "none")
====
